---- MODULE Spec2Model ----
(***************************************************************************)
(* Printer monitoring and print-session core of telebambu.                 *)
(*                                                                         *)
(*   src/printers/manager.py   PrinterManager: the poller (check_states)   *)
(*   src/printers/monitor.py   monitor_loop / handle_event: the dispatcher *)
(*   src/bot/messages.py       MessageService: announcements and DMs       *)
(*   src/bot/handlers.py       callbacks and commands of the users         *)
(*   src/data/storage.py       Storage: sessions, preferences, the file    *)
(***************************************************************************)
EXTENDS Integers, Sequences, FiniteSets, TLC

(***************************************************************************)
(* Bounds of the model and constants of the program.                       *)
(***************************************************************************)
NumPrinters == 2          \* len(cfg.PRINTERS)
PauseDebounce == 60       \* seconds, manager.py line 109
StartTime == 100          \* time.time() when the process starts (> PauseDebounce)
MaxElapsed == 61          \* seconds of clock the model lets pass after StartTime
MaxLayer == 2             \* largest layer number the device reports
MaxTotalLayers == 4       \* largest total_layer_num() the device reports
NoUser == 0               \* claimed_by = None (as falsy as 0)
NoLayer == 0              \* notify_layer = None (as falsy as 0)
NoIndex == -1             \* printer_index = None
NoMessage == 0            \* status_message_id = None

Printers == 0 .. (NumPrinters - 1)

None == "None"

\* bambulabs_api.GcodeState
GcodeState == {"UNKNOWN", "IDLE", "PREPARE", "RUNNING", "PAUSE", "FINISH", "FAILED"}
\* bambulabs_api.PrintStatus (two known values stand for the platform's sub-states)
PrintStatus == {"UNKNOWN", "PRINTING", "IDLE"}
ErrorCodes == {0, 1}
\* Telegram user ids
Users == {7, 42}
\* ctx.chat_id, from cfg.CHAT_ID
MainChat == "1234567890"
\* message ids the gateway hands out
MessageIds == {11, 12}
PrintTimes == {90}
\* the clock advances by one of these between two reads of time.time()
TickSteps == {30, 31}

EventType == {"PRINT_STARTED", "PRINT_FINISHED", "PRINT_FAILED", "PRINT_PAUSED",
              "LAYER_CHANGED", "STATE_CHANGED"}

VARIABLES
    now,               \* time.time()
    printers,          \* PrinterManager.printers: TRUE a Printer object, FALSE None
    prev_states,       \* PrinterManager.prev_states: (gcode_state, print_state) per printer
    prev_layers,       \* PrinterManager.prev_layers
    last_paused_time,  \* PrinterManager.last_paused_time
    check_i,           \* position of check_states' loop over the printers
    cycle,             \* the last run of _check_printer_state: what it read and yielded
    pause_event_at,    \* per printer, when its last PRINT_PAUSED was yielded (-1: never)
    fed,               \* per printer, the gcode_state of the last reading fed (None: none yet)
    active_prints,     \* Storage.active_prints: printer_index -> PrintSession
    user_preferences,  \* Storage.user_preferences: user_id -> UserPreferences
    status_message_id, \* Storage.status_message_id (NoMessage: None)
    data_file,         \* the content of DATA_FILE
    pending,           \* events check_states has computed for the running handle_event loop
    disp,              \* the handle_event call in flight, suspended at an await
    did                \* the step just taken: the operation, what it saw and what it sent

pollerVars == <<printers, prev_states, prev_layers, last_paused_time, check_i>>
historyVars == <<cycle, pause_event_at, fed>>
storeVars == <<active_prints, user_preferences, status_message_id, data_file>>
dispVars == <<pending, disp>>
vars == <<now, pollerVars, historyVars, storeVars, dispVars, did>>

(***************************************************************************)
(* Device adapter: one reading is what the calls of one cycle return.      *)
(***************************************************************************)
Reading(g, p, l, e, t) ==
    [gcode_state |-> g, print_state |-> p, layer |-> l, error_code |-> e, time |-> t]

\* current_layer_num() is read only while RUNNING, print_error_code() only on FAILED
\* and PAUSE, get_time() only on RUNNING: the values never read are fixed
Readings ==
    {Reading(g, p, l, e, t) : g \in GcodeState, p \in PrintStatus,
                              l \in 0 .. MaxLayer, e \in ErrorCodes, t \in PrintTimes \cup {0}}

PollReadings ==
    {r \in Readings :
        /\ (r.gcode_state # "RUNNING") = (r.time = 0)
        /\ r.gcode_state # "RUNNING" => r.layer = 0
        /\ r.gcode_state \notin {"FAILED", "PAUSE"} => r.error_code = 0}

(***************************************************************************)
(* PrinterEvent                                                            *)
(***************************************************************************)
Event(type, i, channel, prev, new, prev_layer, layer, error_code, print_time) ==
    [type |-> type, printer_index |-> i, channel |-> channel, prev |-> prev, new |-> new,
     prev_layer |-> prev_layer, layer |-> layer, error_code |-> error_code,
     print_time |-> print_time]

StateChanged(i, prev, new) == Event("STATE_CHANGED", i, "gcode", prev, new, 0, 0, 0, 0)
PrintStateChanged(i, prev, new) == Event("STATE_CHANGED", i, "print", prev, new, 0, 0, 0, 0)
PrintFinished(i) == Event("PRINT_FINISHED", i, "", "", "", 0, 0, 0, 0)
PrintFailed(i, e) == Event("PRINT_FAILED", i, "", "", "", 0, 0, e, 0)
PrintPaused(i, e) == Event("PRINT_PAUSED", i, "", "", "", 0, 0, e, 0)
PrintStarted(i, t) == Event("PRINT_STARTED", i, "", "", "", 0, 0, 0, t)
LayerChanged(i, pl, l) == Event("LAYER_CHANGED", i, "", "", "", pl, l, 0, 0)

RECURSIVE CountType(_, _)
CountType(type, events) ==
    IF events = <<>> THEN 0
    ELSE (IF Head(events).type = type THEN 1 ELSE 0) + CountType(type, Tail(events))

(***************************************************************************)
(* PrinterManager._check_printer_state                                     *)
(***************************************************************************)
\* variant: an UNKNOWN baseline counts as a change
GcodeChangedFromUnknown(prev, new) == prev # new
\* variant: a known state counts as a change even when it stays
GcodeChangedNoDiff(prev, new) == prev # "UNKNOWN"
\* line 84
GcodeChanged(prev, new) == prev # "UNKNOWN" /\ prev # new

\* variant: a resume from PAUSE counts as a start
IsPrintStartOnResume(prev, new) ==
    prev \in {"FINISH", "IDLE", "PREPARE", "PAUSE"} /\ new = "RUNNING"
\* line 118
IsPrintStart(prev, new) == prev \in {"FINISH", "IDLE", "PREPARE"} /\ new = "RUNNING"

\* variant: a pause exactly PauseDebounce seconds after the last is reported
PauseAllowedAtThreshold(t, last) == t - last >= PauseDebounce
\* line 109
PauseAllowed(t, last) == t - last > PauseDebounce

\* lines 84-125: the events of the gcode channel
GcodeEvents(i, prev, last, t, r) ==
    IF GcodeChanged(prev, r.gcode_state)
    THEN <<StateChanged(i, prev, r.gcode_state)>> \o
         (IF r.gcode_state = "FINISH" THEN <<PrintFinished(i)>>
          ELSE IF r.gcode_state = "FAILED" THEN <<PrintFailed(i, r.error_code)>>
          ELSE IF prev = "RUNNING" /\ r.gcode_state = "PAUSE"
               THEN (IF PauseAllowed(t, last) THEN <<PrintPaused(i, r.error_code)>> ELSE <<>>)
          ELSE IF IsPrintStart(prev, r.gcode_state) THEN <<PrintStarted(i, r.time)>>
          ELSE <<>>)
    ELSE <<>>

\* variant: the timestamp moves with every RUNNING -> PAUSE
PausedTimeMovedWhenSuppressed(i, prev, last, t, r) ==
    IF GcodeChanged(prev, r.gcode_state) /\ r.gcode_state \notin {"FINISH", "FAILED"}
       /\ prev = "RUNNING" /\ r.gcode_state = "PAUSE"
    THEN t ELSE last
\* line 116: the timestamp moves only when PRINT_PAUSED was yielded
PausedTimeAfter(i, prev, last, t, r) ==
    IF CountType("PRINT_PAUSED", GcodeEvents(i, prev, last, t, r)) > 0 THEN t ELSE last

\* variant: a new print goes on from the layer the last one left
LayerBaseNoReset(i, prev, layer, r) == layer
\* line 119: the layer counter a new print starts from
LayerBase(i, prev, layer, r) ==
    IF GcodeChanged(prev, r.gcode_state) /\ r.gcode_state \notin {"FINISH", "FAILED"}
       /\ ~(prev = "RUNNING" /\ r.gcode_state = "PAUSE")
       /\ IsPrintStart(prev, r.gcode_state)
    THEN 0 ELSE layer

\* lines 128-138
LayerEvents(i, base, r) ==
    IF r.gcode_state = "RUNNING" /\ r.layer # base
    THEN <<LayerChanged(i, base, r.layer)>> ELSE <<>>

\* variant: the layer read is reported and not remembered
LayerAfterNotKept(i, base, r) == base
LayerAfter(i, base, r) ==
    IF r.gcode_state = "RUNNING" /\ r.layer # base THEN r.layer ELSE base

\* lines 141-147
PrintStateEvents(i, prev_print, r) ==
    IF prev_print # "UNKNOWN" /\ prev_print # r.print_state
    THEN <<PrintStateChanged(i, prev_print, r.print_state)>> ELSE <<>>

\* everything one run of the generator yields, in order
CycleEvents(i, r) ==
    GcodeEvents(i, prev_states[i].gcode_state, last_paused_time[i], now, r)
    \o LayerEvents(i, LayerBase(i, prev_states[i].gcode_state, prev_layers[i], r), r)
    \o PrintStateEvents(i, prev_states[i].print_state, r)

\* the assignments of one run of the generator
CheckPrinterState(i, r) ==
    /\ prev_states' = [prev_states EXCEPT
                         ![i] = [gcode_state |-> r.gcode_state, print_state |-> r.print_state]]
    /\ prev_layers' = [prev_layers EXCEPT
                         ![i] = LayerAfter(i, LayerBase(i, prev_states[i].gcode_state,
                                                        prev_layers[i], r), r)]
    /\ last_paused_time' = [last_paused_time EXCEPT
                              ![i] = PausedTimeAfter(i, prev_states[i].gcode_state,
                                                     last_paused_time[i], now, r)]

\* what the consumer of the generator saw of that run
Observe(i, r) ==
    /\ cycle' = [printer_index |-> i,
                 prev |-> prev_states[i].gcode_state,
                 prev_print |-> prev_states[i].print_state,
                 fed_before |-> fed[i],
                 new |-> r.gcode_state,
                 new_print |-> r.print_state,
                 at |-> now,
                 paused_before |-> last_paused_time[i],
                 pause_event_before |-> pause_event_at[i],
                 events |-> CycleEvents(i, r)]
    /\ pause_event_at' = [pause_event_at EXCEPT
                            ![i] = IF CountType("PRINT_PAUSED", CycleEvents(i, r)) > 0
                                   THEN now ELSE @]
    /\ fed' = [fed EXCEPT ![i] = r.gcode_state]

(***************************************************************************)
(* Text: a Python str is a sequence of characters.                         *)
(***************************************************************************)
DigitChar == <<"0", "1", "2", "3", "4", "5", "6", "7", "8", "9">>

\* str(n), n >= 0
RECURSIVE Str(_)
Str(n) == IF n < 10 THEN <<DigitChar[n + 1]>> ELSE Str(n \div 10) \o <<DigitChar[(n % 10) + 1]>>

DigitValue(c) == (CHOOSE d \in 1 .. 10 : DigitChar[d] = c) - 1

IsDigits(text) ==
    /\ Len(text) > 0
    /\ \A k \in 1 .. Len(text) : \E d \in 1 .. 10 : DigitChar[d] = text[k]

\* int(text) of a text of digits
RECURSIVE IntOf(_)
IntOf(text) ==
    IF Len(text) = 1 THEN DigitValue(text[1])
    ELSE 10 * IntOf(SubSeq(text, 1, Len(text) - 1)) + DigitValue(text[Len(text)])

\* MessageService.format_print_time
FormatPrintTime(total_mins) ==
    IF total_mins \div 60 > 0
    THEN Str(total_mins \div 60) \o <<"h">> \o Str(total_mins % 60) \o <<"m">>
    ELSE Str(total_mins % 60) \o <<"m">>

(***************************************************************************)
(* Storage (src/data/storage.py)                                           *)
(***************************************************************************)
\* the fields of PrintSession that storage.py declares, with their defaults
PrintSession(message_id, chat_id, printer_index) ==
    [message_id |-> message_id, chat_id |-> chat_id, printer_index |-> printer_index,
     claimed_by |-> NoUser, claimed_username |-> None, dm_preference |-> "chat",
     layer2_notify |-> TRUE, layer2_notified |-> FALSE]

\* the fields of PrintSession that messages.py and handlers.py use and the persisted
\* schema lists, with their defaults
NotifyFields(print_time) ==
    [notify_layer |-> NoLayer, notify_type |-> None, notify_original_value |-> NoLayer,
     notify_layer_notified |-> FALSE, print_time |-> print_time]

UserPreferences == [default_dm_preference |-> "chat", layer2_notify |-> TRUE]

Put(dict, key, value) == [k \in DOMAIN dict \cup {key} |-> IF k = key THEN value ELSE dict[k]]
Pop(dict, key) == [k \in DOMAIN dict \ {key} |-> dict[k]]
EmptyDict == [k \in {} |-> 0]

\* variant: a session found under the key keeps its claim
StartPrintKeepsClaim(ap, i, message_id, chat_id, print_time) ==
    Put(ap, i, [PrintSession(message_id, chat_id, i) @@ NotifyFields(print_time)
                   EXCEPT !.claimed_by = IF i \in DOMAIN ap THEN ap[i].claimed_by ELSE @,
                          !.claimed_username = IF i \in DOMAIN ap THEN ap[i].claimed_username
                                               ELSE @])
\* start_print, called with the print time as send_print_started calls it
StartPrint(ap, i, message_id, chat_id, print_time) ==
    Put(ap, i, PrintSession(message_id, chat_id, i) @@ NotifyFields(print_time))

\* variant: the claim resets the session to the defaults
ClaimPrintOverwritesPrefs(ap, up, i, user_id, username) ==
    [ap EXCEPT ![i] = [@ EXCEPT !.claimed_by = user_id, !.claimed_username = username,
                                !.dm_preference = "chat", !.layer2_notify = TRUE]]
\* variant: the claim records the user id and not the name
ClaimPrintWithoutName(ap, up, i, user_id, username) ==
    [ap EXCEPT ![i] =
        [@ EXCEPT !.claimed_by = user_id,
                  !.dm_preference = IF user_id \in DOMAIN up
                                    THEN up[user_id].default_dm_preference ELSE @,
                  !.layer2_notify = IF user_id \in DOMAIN up
                                    THEN up[user_id].layer2_notify ELSE @]]
\* claim_print, for a session that exists
ClaimPrint(ap, up, i, user_id, username) ==
    [ap EXCEPT ![i] =
        [@ EXCEPT !.claimed_by = user_id,
                  !.claimed_username = username,
                  !.dm_preference = IF user_id \in DOMAIN up
                                    THEN up[user_id].default_dm_preference ELSE @,
                  !.layer2_notify = IF user_id \in DOMAIN up
                                    THEN up[user_id].layer2_notify ELSE @]]

\* set_dm_preference: the session
SetDmPreference(ap, i, preference) ==
    IF i \in DOMAIN ap THEN [ap EXCEPT ![i].dm_preference = preference] ELSE ap

\* set_dm_preference: the claimer's default
SetDmPreferenceDefault(ap, up, i, preference) ==
    IF i \in DOMAIN ap /\ ap[i].claimed_by # NoUser
    THEN Put(up, ap[i].claimed_by,
             [(IF ap[i].claimed_by \in DOMAIN up THEN up[ap[i].claimed_by] ELSE UserPreferences)
                 EXCEPT !.default_dm_preference = preference])
    ELSE up

\* variant: switching the layer-2 notification takes its notified flag back
SetLayer2NotifyRearms(ap, i, enabled) ==
    IF i \in DOMAIN ap
    THEN [ap EXCEPT ![i].layer2_notify = enabled, ![i].layer2_notified = FALSE]
    ELSE ap
\* set_layer2_notify: the session
SetLayer2Notify(ap, i, enabled) ==
    IF i \in DOMAIN ap THEN [ap EXCEPT ![i].layer2_notify = enabled] ELSE ap

\* set_layer2_notify: the claimer's default
SetLayer2NotifyDefault(ap, up, i, enabled) ==
    IF i \in DOMAIN ap /\ ap[i].claimed_by # NoUser
    THEN Put(up, ap[i].claimed_by,
             [(IF ap[i].claimed_by \in DOMAIN up THEN up[ap[i].claimed_by] ELSE UserPreferences)
                 EXCEPT !.layer2_notify = enabled])
    ELSE up

\* variant: the mark makes a row for an index that has none
MarkLayer2NotifiedMakesRow(ap, i) ==
    Put(ap, i, [(IF i \in DOMAIN ap THEN ap[i]
                 ELSE PrintSession(NoMessage, None, i) @@ NotifyFields(None))
                   EXCEPT !.layer2_notified = TRUE])
\* mark_layer2_notified
MarkLayer2Notified(ap, i) ==
    IF i \in DOMAIN ap THEN [ap EXCEPT ![i].layer2_notified = TRUE] ELSE ap

\* end_print
EndPrint(ap, i) == Pop(ap, i)

\* unclaim_print: the claim, the preference and the notification flags go back to
\* their defaults; the row and its message linkage stay
UnclaimPrint(ap, i) ==
    IF i \in DOMAIN ap
    THEN [ap EXCEPT ![i] =
            [@ EXCEPT !.claimed_by = NoUser, !.claimed_username = None,
                      !.dm_preference = "chat", !.layer2_notify = TRUE,
                      !.layer2_notified = FALSE, !.notify_layer = NoLayer,
                      !.notify_type = None, !.notify_original_value = NoLayer,
                      !.notify_layer_notified = FALSE]]
    ELSE ap

\* variant: arming a target takes the notified flag back
SetNotifyLayerRearms(ap, i, layer, notify_type, original_value) ==
    IF i \in DOMAIN ap
    THEN [ap EXCEPT ![i] =
            [@ EXCEPT !.notify_layer = layer, !.notify_type = notify_type,
                      !.notify_original_value = original_value,
                      !.notify_layer_notified = FALSE]]
    ELSE ap
\* set_notify_layer: stores the target, its type and the number the user gave;
\* notify_layer_notified is left as it is (the notified flags go back to false only
\* with the end of the session or an unclaim)
SetNotifyLayer(ap, i, layer, notify_type, original_value) ==
    IF i \in DOMAIN ap
    THEN [ap EXCEPT ![i] =
            [@ EXCEPT !.notify_layer = layer, !.notify_type = notify_type,
                      !.notify_original_value = original_value]]
    ELSE ap

\* mark_notify_layer_notified
MarkNotifyLayerNotified(ap, i) ==
    IF i \in DOMAIN ap THEN [ap EXCEPT ![i].notify_layer_notified = TRUE] ELSE ap

(***************************************************************************)
(* The persisted file: json.dump of _save, json.load and the constructors  *)
(* of _load.  A JSON object is a function of its keys, which are texts.    *)
(***************************************************************************)
JNull == [t |-> "null", v |-> <<>>]
JNumber(n) == [t |-> "number", v |-> Str(n)]
JString(x) == [t |-> "string", v |-> x]
JBool(b) == [t |-> IF b THEN "true" ELSE "false", v |-> <<>>]

\* Optional[int]: None is written as null
JOptInt(n, none) == IF n = none THEN JNull ELSE JNumber(n)
JOptString(x, none) == IF x = none THEN JNull ELSE JString(x)

PyOptInt(j, none) == IF j.t = "null" THEN none ELSE IntOf(j.v)
PyOptString(j, none) == IF j.t = "null" THEN none ELSE j.v
PyBool(j) == j.t = "true"

\* asdict(session), as json.dump writes it
DumpSession(s) ==
    [message_id |-> JNumber(s.message_id),
     chat_id |-> JString(s.chat_id),
     printer_index |-> JNumber(s.printer_index),
     claimed_by |-> JOptInt(s.claimed_by, NoUser),
     claimed_username |-> JOptString(s.claimed_username, None),
     dm_preference |-> JString(s.dm_preference),
     layer2_notify |-> JBool(s.layer2_notify),
     layer2_notified |-> JBool(s.layer2_notified),
     notify_layer |-> JOptInt(s.notify_layer, NoLayer),
     notify_type |-> JOptString(s.notify_type, None),
     notify_original_value |-> JOptInt(s.notify_original_value, NoLayer),
     notify_layer_notified |-> JBool(s.notify_layer_notified),
     print_time |-> JOptString(s.print_time, <<>>)]

\* variant: only the positional fields are loaded
LoadSessionUnclaimed(j) ==
    PrintSession(IntOf(j.message_id.v), j.chat_id.v, IntOf(j.printer_index.v))
        @@ NotifyFields(PyOptString(j.print_time, <<>>))
\* PrintSession(**session_data)
LoadSession(j) ==
    [message_id |-> IntOf(j.message_id.v),
     chat_id |-> j.chat_id.v,
     printer_index |-> IntOf(j.printer_index.v),
     claimed_by |-> PyOptInt(j.claimed_by, NoUser),
     claimed_username |-> PyOptString(j.claimed_username, None),
     dm_preference |-> j.dm_preference.v,
     layer2_notify |-> PyBool(j.layer2_notify),
     layer2_notified |-> PyBool(j.layer2_notified),
     notify_layer |-> PyOptInt(j.notify_layer, NoLayer),
     notify_type |-> PyOptString(j.notify_type, None),
     notify_original_value |-> PyOptInt(j.notify_original_value, NoLayer),
     notify_layer_notified |-> PyBool(j.notify_layer_notified),
     print_time |-> PyOptString(j.print_time, <<>>)]

DumpPreferences(p) ==
    [default_dm_preference |-> JString(p.default_dm_preference),
     layer2_notify |-> JBool(p.layer2_notify)]

LoadPreferences(j) ==
    [default_dm_preference |-> j.default_dm_preference.v,
     layer2_notify |-> PyBool(j.layer2_notify)]

\* {str(idx): asdict(session) ...}
DumpSessions(ap) ==
    [text \in {Str(k) : k \in DOMAIN ap} |->
        DumpSession(ap[CHOOSE k \in DOMAIN ap : Str(k) = text])]

\* {str(user_id): asdict(prefs) ...}
DumpAllPreferences(up) ==
    [text \in {Str(k) : k \in DOMAIN up} |->
        DumpPreferences(up[CHOOSE k \in DOMAIN up : Str(k) = text])]

\* active_prints[int(idx)] = PrintSession(**session_data)
LoadSessions(obj) ==
    [k \in {IntOf(text) : text \in DOMAIN obj} |->
        LoadSession(obj[CHOOSE text \in DOMAIN obj : IntOf(text) = k])]

\* user_preferences[int(user_id)] = UserPreferences(**prefs_data)
LoadAllPreferences(obj) ==
    [k \in {IntOf(text) : text \in DOMAIN obj} |->
        LoadPreferences(obj[CHOOSE text \in DOMAIN obj : IntOf(text) = k])]

MissingFile ==
    [exists |-> FALSE, active_prints |-> EmptyDict, user_preferences |-> EmptyDict,
     status_message_id |-> JNull]

\* Storage._save, called by a mutator of the sessions or of the preferences
Save(ap, up) ==
    [exists |-> TRUE,
     active_prints |-> DumpSessions(ap),
     user_preferences |-> DumpAllPreferences(up),
     status_message_id |-> JOptInt(status_message_id, NoMessage)]

\* a file that the program did not leave as it wrote it: json.load raises on it (kind
\* "unparseable"), or the record under `key` of one section (kind "active_prints" or
\* "user_preferences") cannot be turned into its dataclass; `before` are the keys of
\* that section that stand before the record in the file
Damaged(file, kind, key, before) ==
    [exists |-> TRUE, active_prints |-> file.active_prints,
     user_preferences |-> file.user_preferences,
     status_message_id |-> file.status_message_id,
     damage |-> [kind |-> kind, key |-> key, before |-> before]]

\* variant: a file that cannot be loaded whole leaves the Storage empty
LoadAllOrNothing(file) ==
    IF ~file.exists \/ "damage" \in DOMAIN file THEN <<EmptyDict, EmptyDict, NoMessage>>
    ELSE <<LoadSessions(file.active_prints), LoadAllPreferences(file.user_preferences),
           PyOptInt(file.status_message_id, NoMessage)>>
\* Storage._load into a fresh Storage: <<active_prints, user_preferences,
\* status_message_id>>; the one try of lines 37-49 is left at the first exception, and
\* what was assigned before it stays
Load(file) ==
    IF ~file.exists THEN <<EmptyDict, EmptyDict, NoMessage>>
    ELSE IF "damage" \notin DOMAIN file
    THEN <<LoadSessions(file.active_prints), LoadAllPreferences(file.user_preferences),
           PyOptInt(file.status_message_id, NoMessage)>>
    ELSE IF file.damage.kind = "unparseable" THEN <<EmptyDict, EmptyDict, NoMessage>>
    ELSE IF file.damage.kind = "active_prints"
    THEN <<LoadSessions([text \in file.damage.before |-> file.active_prints[text]]),
           EmptyDict, NoMessage>>
    ELSE <<LoadSessions(file.active_prints),
           LoadAllPreferences([text \in file.damage.before |-> file.user_preferences[text]]),
           NoMessage>>

\* what _load met: no file, an exception (printed at line 49), or neither
LoadResult(file) ==
    IF ~file.exists THEN "missing"
    ELSE IF "damage" \notin DOMAIN file THEN "ok"
    ELSE IF file.damage.kind = "unparseable" THEN "unparseable"
    ELSE "bad_record"

\* the files a start of the program may find where `file` was left: that file, none,
\* or its text cut short or with one record changed, the records in any order
StartupFiles(file) ==
    LET saved == [exists |-> file.exists, active_prints |-> file.active_prints,
                  user_preferences |-> file.user_preferences,
                  status_message_id |-> file.status_message_id]
        BadRecords(section, obj) ==
            UNION {{Damaged(saved, section, key, before) :
                       before \in SUBSET (DOMAIN obj \ {key})} : key \in DOMAIN obj}
    IN  {file, MissingFile} \cup
        (IF file.exists
         THEN {Damaged(saved, "unparseable", <<>>, {})}
              \cup BadRecords("active_prints", file.active_prints)
              \cup BadRecords("user_preferences", file.user_preferences)
         ELSE {})

(***************************************************************************)
(* What a step leaves for the properties to read.                          *)
(***************************************************************************)
Snapshot(ap, i) == IF i \in DOMAIN ap THEN <<ap[i]>> ELSE <<>>

Did(op, user, i, result, seen, sent, event, input) ==
    [op |-> op, user |-> user, printer_index |-> i, result |-> result,
     seen |-> seen, sent |-> sent, event |-> event, input |-> input]

NoStep == Did("none", NoUser, 0, "", <<>>, <<>>, <<>>, <<>>)

\* a message the gateway delivered
Message(kind, chat, user, name, photo) ==
    [kind |-> kind, chat |-> chat, user |-> user, name |-> name, photo |-> photo]

Idle == [pc |-> "idle", printer_index |-> 0, seen |-> <<>>, sent |-> <<>>, message |-> <<>>]

(***************************************************************************)
(* PrinterManager.check_states, driven as list(check_states()): one step   *)
(* per printer of the pass.                                                *)
(***************************************************************************)
\* line 68: the loop over the printers; after the last one the next call of
\* check_states starts again at the first
NextPrinter(i) == (i + 1) % NumPrinters

\* variant: a printer that is skipped loses its baseline
CheckStatesSkipForgets ==
    /\ check_i' = NextPrinter(check_i)
    /\ prev_states' = [prev_states EXCEPT ![check_i] = [gcode_state |-> "UNKNOWN",
                                                        print_state |-> "UNKNOWN"]]
    /\ UNCHANGED <<now, printers, prev_layers, last_paused_time, historyVars,
                   storeVars, dispVars, did>>
\* lines 69-70: no Printer object, or mqtt_client_ready() is false
CheckStatesSkip ==
    /\ check_i' = NextPrinter(check_i)
    /\ UNCHANGED <<now, printers, prev_states, prev_layers, last_paused_time, historyVars,
                   storeVars, dispVars, did>>

\* lines 72-73
CheckStatesReady(r) ==
    /\ printers[check_i]
    /\ CheckPrinterState(check_i, r)
    /\ Observe(check_i, r)
    /\ check_i' = NextPrinter(check_i)
    /\ UNCHANGED <<now, printers, storeVars, dispVars, did>>

Tick(d) ==
    /\ now + d <= StartTime + MaxElapsed
    /\ now' = now + d
    /\ UNCHANGED <<pollerVars, historyVars, storeVars, dispVars, did>>

(***************************************************************************)
(* monitor_loop (src/printers/monitor.py): check_states driven by the      *)
(* loop of lines 37-41, which handles each event before the generator      *)
(* goes on.                                                                *)
(***************************************************************************)
Dispatching == pending # <<>> \/ disp.pc # "idle"

\* manager.py lines 69-70
MonitorSkip ==
    /\ ~Dispatching
    /\ check_i' = NextPrinter(check_i)
    /\ did' = NoStep
    /\ UNCHANGED <<now, printers, prev_states, prev_layers, last_paused_time, historyVars,
                   storeVars, dispVars>>

\* manager.py lines 72-73: the events of printer check_i, for handle_event
MonitorCheck(r) ==
    /\ ~Dispatching
    /\ printers[check_i]
    /\ CheckPrinterState(check_i, r)
    /\ pending' = CycleEvents(check_i, r)
    /\ check_i' = NextPrinter(check_i)
    /\ did' = NoStep
    /\ UNCHANGED <<now, printers, historyVars, storeVars, disp>>

\* monitor_loop was left by an exception: no pass follows
Crashed == [Idle EXCEPT !.pc = "crashed"]

\* manager.py line 69: mqtt_client_ready() raises; the call is outside the try of lines
\* 72-75, and the generator is advanced outside the try of monitor.py lines 38-41
MonitorReadinessRaises ==
    /\ ~Dispatching
    /\ printers[check_i]
    /\ disp' = Crashed
    /\ did' = Did("check", NoUser, check_i, "readiness_raised", <<>>, <<>>, <<>>, <<>>)
    /\ UNCHANGED <<now, pollerVars, historyVars, storeVars, pending>>

\* the device calls of _check_printer_state: get_state and get_current_state (lines
\* 79-80), print_error_code and get_time (lines 104, 114, 124), current_layer_num
\* (line 129)
RaisePoints == {"state", "detail", "layer"}

\* whether a run of _check_printer_state on reading r makes the call
Reaches(i, r, at) ==
    \/ at = "state"
    \/ /\ at = "detail"
       /\ GcodeChanged(prev_states[i].gcode_state, r.gcode_state)
       /\ \/ r.gcode_state = "FAILED"
          \/ /\ prev_states[i].gcode_state = "RUNNING" /\ r.gcode_state = "PAUSE"
             /\ PauseAllowed(now, last_paused_time[i])
          \/ IsPrintStart(prev_states[i].gcode_state, r.gcode_state)
    \/ at = "layer" /\ r.gcode_state = "RUNNING"

\* the events the generator yielded before the call that raises
RaisedEvents(i, r, at) ==
    IF at = "state" THEN <<>>
    ELSE IF at = "detail" THEN <<StateChanged(i, prev_states[i].gcode_state, r.gcode_state)>>
    ELSE GcodeEvents(i, prev_states[i].gcode_state, last_paused_time[i], now, r)

\* manager.py lines 72-75: a device call of _check_printer_state raises; what was
\* assigned and yielded before it stays, and the loop of line 68 goes on
MonitorCheckRaises(r, at) ==
    /\ ~Dispatching
    /\ printers[check_i]
    /\ Reaches(check_i, r, at)
    /\ prev_states' = IF at = "state" THEN prev_states
                      ELSE [prev_states EXCEPT ![check_i] = [gcode_state |-> r.gcode_state,
                                                             print_state |-> r.print_state]]
    /\ prev_layers' = IF at = "state" THEN prev_layers
                      ELSE [prev_layers EXCEPT
                              ![check_i] = LayerBase(check_i, prev_states[check_i].gcode_state,
                                                     prev_layers[check_i], r)]
    /\ fed' = IF at = "state" THEN fed ELSE [fed EXCEPT ![check_i] = r.gcode_state]
    /\ pending' = RaisedEvents(check_i, r, at)
    /\ check_i' = NextPrinter(check_i)
    /\ did' = Did("check", NoUser, check_i, "check_raised", <<>>, <<>>, <<>>, <<at>>)
    /\ UNCHANGED <<now, printers, last_paused_time, cycle, pause_event_at, storeVars, disp>>

\* monitor.py lines 21 and 31: the log send of reconnect_if_needed (manager.py lines
\* 60-61, messages.py lines 225-235) or the alert of check_stale_cameras (monitor.py
\* lines 57-61) raises; neither is in a try
UncaughtCalls == {"reconnect_log", "stale_alert"}

MonitorPassRaises(what) ==
    /\ ~Dispatching /\ check_i = 0
    /\ \E i \in Printers : printers[i]
    /\ disp' = Crashed
    /\ did' = Did("pass", NoUser, 0, "raised", <<>>, <<>>, <<>>, <<what>>)
    /\ UNCHANGED <<now, pollerVars, historyVars, storeVars, pending>>

\* monitor.py lines 24-28 and messages.py lines 316-327: the status-message update or
\* a livestream update raises and is caught where it is made
CaughtCalls == {"status", "livestream"}

MonitorPassCaught(what) ==
    /\ ~Dispatching /\ check_i = 0
    /\ did' = Did("pass", NoUser, 0, "caught", <<>>, <<>>, <<>>, <<what>>)
    /\ UNCHANGED <<now, pollerVars, historyVars, storeVars, dispVars>>

\* variant: a mutator changes the memory and leaves the file as it is
StoredInMemory(ap, up) ==
    /\ active_prints' = ap
    /\ user_preferences' = up
    /\ status_message_id' = status_message_id
    /\ data_file' = data_file
\* the store after a mutator: _save rewrites the file
Stored(ap, up) ==
    /\ active_prints' = ap
    /\ user_preferences' = up
    /\ status_message_id' = status_message_id
    /\ data_file' = Save(ap, up)

\* monitor.py lines 24-28 and update_status_message (messages.py lines 238-257) with a
\* send that returns: the first status message is sent and its id is stored
\* (set_status_message_id, storage.py lines 129-131), a later one is an edit
UpdateStatusMessage(message_id) ==
    /\ ~Dispatching /\ check_i = 0
    /\ IF status_message_id = NoMessage
       THEN /\ status_message_id' = message_id
            /\ data_file' = [Save(active_prints, user_preferences)
                               EXCEPT !.status_message_id = JOptInt(message_id, NoMessage)]
            /\ UNCHANGED <<active_prints, user_preferences>>
       ELSE UNCHANGED storeVars
    /\ did' = Did("pass", NoUser, 0,
                  IF status_message_id = NoMessage THEN "sent" ELSE "edited",
                  <<>>, <<>>, <<>>, <<"status">>)
    /\ UNCHANGED <<now, pollerVars, historyVars, dispVars>>

\* variant: an exception of handle_event ends the loop over the events of the pass
HandledDropsRest(e, result, seen, sent) ==
    /\ pending' = IF result = "raised" THEN <<>> ELSE Tail(pending)
    /\ disp' = Idle
    /\ did' = Did("handled", NoUser, e.printer_index, result, seen, sent, <<e>>, <<>>)
\* handle_event returned or raised: the loop takes the next event
Handled(e, result, seen, sent) ==
    /\ pending' = Tail(pending)
    /\ disp' = Idle
    /\ did' = Did("handled", NoUser, e.printer_index, result, seen, sent, <<e>>, <<>>)

CanHandle(type) ==
    /\ disp.pc = "idle"
    /\ pending # <<>>
    /\ Head(pending).type = type

\* lines 86-97: log_message(..., stdout_only=True)
HandleStateChanged ==
    /\ CanHandle("STATE_CHANGED")
    /\ Handled(Head(pending), "ok", <<>>, <<>>)
    /\ UNCHANGED <<now, pollerVars, historyVars, storeVars>>

\* variant: a failed or paused print loses its session
HandleLoggedEndsPrint(delivered) ==
    /\ \/ CanHandle("PRINT_FAILED")
       \/ CanHandle("PRINT_PAUSED")
    /\ Stored(EndPrint(active_prints, Head(pending).printer_index), user_preferences)
    /\ Handled(Head(pending), IF delivered THEN "ok" ELSE "raised", <<>>,
               IF delivered THEN <<Message("log", "log", NoUser, None, FALSE)>> ELSE <<>>)
    /\ UNCHANGED <<now, pollerVars, historyVars>>
\* lines 119-131: log_message with the error code and the last frame
HandleLogged(delivered) ==
    /\ \/ CanHandle("PRINT_FAILED")
       \/ CanHandle("PRINT_PAUSED")
    /\ Handled(Head(pending), IF delivered THEN "ok" ELSE "raised", <<>>,
               IF delivered THEN <<Message("log", "log", NoUser, None, FALSE)>> ELSE <<>>)
    /\ UNCHANGED <<now, pollerVars, historyVars, storeVars>>

\* lines 99-104 and send_print_started (messages.py lines 35-61); `seen` is the
\* session found at line 37, whose announcement line 40 asks the gateway to delete
\* before the new one is sent (the outcome of the deletion is ignored, lines 44-45)
HandlePrintStarted(delivered, message_id, mins) ==
    LET e == Head(pending)
        i == e.printer_index
    IN  /\ CanHandle("PRINT_STARTED")
        /\ IF delivered
           THEN Stored(StartPrint(active_prints, i, message_id, MainChat,
                                  FormatPrintTime(mins)), user_preferences)
           ELSE UNCHANGED storeVars
        /\ Handled(e, IF delivered THEN "ok" ELSE "raised", Snapshot(active_prints, i),
                   IF delivered THEN <<Message("started", "main", NoUser, None, FALSE)>>
                   ELSE <<>>)
        /\ UNCHANGED <<now, pollerVars, historyVars>>

\* send_print_finished, lines 79-96 and 102-114: whom the announcement goes to
\* variant: the announcement goes to the main chat whatever the preference
FinishedToMainAlways(ap, i, photo) ==
    Message("finished", "main", NoUser,
            IF i \in DOMAIN ap /\ ap[i].claimed_by # NoUser THEN ap[i].claimed_username ELSE None,
            photo)
FinishedMessage(ap, i, photo) ==
    IF i \in DOMAIN ap /\ ap[i].claimed_by # NoUser
    THEN IF ap[i].dm_preference = "dm"
         THEN Message("finished", "dm", ap[i].claimed_by, ap[i].claimed_username, photo)
         ELSE Message("finished", "main", NoUser, ap[i].claimed_username, photo)
    ELSE Message("finished", "main", NoUser, None, photo)

\* the calls of the PRINT_FINISHED branch up to its send, in program order: monitor.py
\* line 107, line 108, lines 111-114, line 116 with messages.py lines 84-95 or 103-114
FinishedCallsToSend == <<"turn_light_on", "clear_frame", "wait_frame", "send">>

\* the calls after a send that returned, in program order: end_print inside
\* send_print_finished (messages.py line 98 or 116), then monitor.py line 117
FinishedCallsAfterSend == <<"end_print", "turn_light_off">>

\* monitor.py lines 106-116 and send_print_finished up to its send: light on, the wait
\* for a frame, the old announcement deleted, the send awaited
HandlePrintFinishedSend(photo) ==
    LET e == Head(pending)
        i == e.printer_index
    IN  /\ CanHandle("PRINT_FINISHED")
        /\ disp' = [pc |-> "finished_send", printer_index |-> i, seen |-> <<>>, sent |-> <<>>,
                    message |-> <<FinishedMessage(active_prints, i, photo)>>,
                    calls |-> FinishedCallsToSend]
        /\ did' = NoStep
        /\ UNCHANGED <<now, pollerVars, historyVars, storeVars, pending>>

\* the send returns or raises; end_print (and _save) and, in monitor.py line 117, the
\* light go with a send that returned
HandlePrintFinishedSent(delivered) ==
    LET e == Head(pending)
        i == disp.printer_index
    IN  /\ disp.pc = "finished_send"
        /\ IF delivered
           THEN Stored(EndPrint(active_prints, i), user_preferences)
           ELSE UNCHANGED storeVars
        /\ pending' = Tail(pending)
        /\ disp' = Idle
        /\ did' = [op |-> "handled", user |-> NoUser, printer_index |-> e.printer_index,
                   result |-> IF delivered THEN "ok" ELSE "raised",
                   seen |-> <<>>, sent |-> IF delivered THEN disp.message ELSE <<>>,
                   event |-> <<e>>, input |-> <<>>,
                   calls |-> IF delivered THEN disp.calls \o FinishedCallsAfterSend
                             ELSE disp.calls]
        /\ UNCHANGED <<now, pollerVars, historyVars>>

\* send_layer2_notification lines 119-124
Layer2Armed(ap, i) ==
    /\ i \in DOMAIN ap
    /\ ap[i].claimed_by # NoUser
    /\ ap[i].layer2_notify
    /\ ~ap[i].layer2_notified

\* variant: the target is not compared with the layer
CustomArmedBelowTarget(ap, i, layer) ==
    /\ i \in DOMAIN ap
    /\ ap[i].claimed_by # NoUser
    /\ ap[i].notify_layer # NoLayer
    /\ ~ap[i].notify_layer_notified
\* variant: notify_layer_notified is not consulted
CustomArmedAgain(ap, i, layer) ==
    /\ i \in DOMAIN ap
    /\ ap[i].claimed_by # NoUser
    /\ ap[i].notify_layer # NoLayer
    /\ layer >= ap[i].notify_layer
\* send_custom_layer_notification lines 151-159
CustomArmed(ap, i, layer) ==
    /\ i \in DOMAIN ap
    /\ ap[i].claimed_by # NoUser
    /\ ap[i].notify_layer # NoLayer
    /\ ~ap[i].notify_layer_notified
    /\ layer >= ap[i].notify_layer

\* send_custom_layer_notification from its first line: it returns at once, or its
\* send is awaited
CustomCheck(e, ap, sent) ==
    IF CustomArmed(ap, e.printer_index, e.layer)
    THEN /\ disp' = [pc |-> "custom_send", printer_index |-> e.printer_index,
                     seen |-> Snapshot(ap, e.printer_index),
                     sent |-> sent,
                     message |-> <<Message("custom", "dm", ap[e.printer_index].claimed_by,
                                           ap[e.printer_index].notify_type, FALSE)>>]
         /\ did' = NoStep
         /\ UNCHANGED pending
    ELSE Handled(e, "ok", <<>>, sent)

\* variant: the layer-2 notification is sent at the first layer from 2 on
HandleLayerChangedFromTwo ==
    LET e == Head(pending)
        i == e.printer_index
    IN  /\ CanHandle("LAYER_CHANGED")
        /\ IF e.layer >= 2 /\ Layer2Armed(active_prints, i)
           THEN /\ disp' = [pc |-> "layer2_send", printer_index |-> i, seen |-> <<>>,
                            sent |-> <<>>,
                            message |-> <<Message("layer2", "dm", active_prints[i].claimed_by,
                                                  None, FALSE)>>]
                /\ did' = NoStep
                /\ UNCHANGED pending
           ELSE CustomCheck(e, active_prints, <<>>)
        /\ UNCHANGED <<now, pollerVars, historyVars, storeVars>>
\* monitor.py lines 133-139, up to the first send that is awaited
HandleLayerChanged ==
    LET e == Head(pending)
        i == e.printer_index
    IN  /\ CanHandle("LAYER_CHANGED")
        /\ IF e.layer = 2 /\ Layer2Armed(active_prints, i)
           THEN /\ disp' = [pc |-> "layer2_send", printer_index |-> i, seen |-> <<>>,
                            sent |-> <<>>,
                            message |-> <<Message("layer2", "dm", active_prints[i].claimed_by,
                                                  None, FALSE)>>]
                /\ did' = NoStep
                /\ UNCHANGED pending
           ELSE CustomCheck(e, active_prints, <<>>)
        /\ UNCHANGED <<now, pollerVars, historyVars, storeVars>>

\* send_layer2_notification lines 134-148: the send returns (mark_layer2_notified, then
\* send_custom_layer_notification) or raises (handle_event is left)
Layer2Sent(delivered) ==
    LET e == Head(pending)
        i == disp.printer_index
    IN  /\ disp.pc = "layer2_send"
        /\ IF delivered
           THEN /\ IF i \in DOMAIN active_prints
                   THEN Stored(MarkLayer2Notified(active_prints, i), user_preferences)
                   ELSE UNCHANGED storeVars
                /\ CustomCheck(e, MarkLayer2Notified(active_prints, i), disp.message)
           ELSE /\ UNCHANGED storeVars
                /\ Handled(e, "raised", <<>>, <<>>)
        /\ UNCHANGED <<now, pollerVars, historyVars>>

\* send_custom_layer_notification lines 174-188: the send returns
\* (mark_notify_layer_notified) or raises
CustomSent(delivered) ==
    LET e == Head(pending)
        i == disp.printer_index
    IN  /\ disp.pc = "custom_send"
        /\ IF delivered /\ i \in DOMAIN active_prints
           THEN Stored(MarkNotifyLayerNotified(active_prints, i), user_preferences)
           ELSE UNCHANGED storeVars
        /\ Handled(e, IF delivered THEN "ok" ELSE "raised", disp.seen,
                   IF delivered THEN disp.sent \o disp.message ELSE disp.sent)
        /\ UNCHANGED <<now, pollerVars, historyVars>>

(***************************************************************************)
(* Callbacks and commands of the users (src/bot/handlers.py).  A handler   *)
(* reads and writes the store before its first await on the gateway, so    *)
(* its store part is one step.                                             *)
(***************************************************************************)
\* the display name handle_claim builds (line 478)
Username(user_id) == IF user_id = 7 THEN "@alice" ELSE "Bob B"

\* int(text): does it return, and what
IsInt(text) == IsDigits(text) \/ (Len(text) > 1 /\ text[1] = "-" /\ IsDigits(Tail(text)))
IntValue(text) == IF text[1] = "-" THEN 0 - IntOf(Tail(text)) ELSE IntOf(text)

\* _get_claimed_printers
ClaimedPrinters(ap, user_id) == {i \in DOMAIN ap : ap[i].claimed_by = user_id}

Resolved(index, error) == [index |-> index, error |-> error]

\* variant: with several claims and no argument the first claimed printer is taken
ResolvePrinterFirstClaimed(ap, user_id, args) ==
    LET claimed == ClaimedPrinters(ap, user_id)
    IN  IF claimed = {} THEN Resolved(NoIndex, "no_claim")
        ELSE IF args # <<>>
        THEN IF IsInt(args[1])
             THEN IF IntValue(args[1]) - 1 < 0 \/ IntValue(args[1]) - 1 >= NumPrinters
                  THEN Resolved(NoIndex, "invalid_number")
                  ELSE IF IntValue(args[1]) - 1 \notin claimed
                  THEN Resolved(NoIndex, "not_claimed")
                  ELSE Resolved(IntValue(args[1]) - 1, None)
             ELSE Resolved(NoIndex, None)
        ELSE Resolved(CHOOSE i \in claimed : \A j \in claimed : i <= j, None)
\* _resolve_printer with require_claim = True
ResolvePrinter(ap, user_id, args) ==
    LET claimed == ClaimedPrinters(ap, user_id)
    IN  IF claimed = {} THEN Resolved(NoIndex, "no_claim")
        ELSE IF args # <<>>
        THEN IF IsInt(args[1])
             THEN IF IntValue(args[1]) - 1 < 0 \/ IntValue(args[1]) - 1 >= NumPrinters
                  THEN Resolved(NoIndex, "invalid_number")
                  ELSE IF IntValue(args[1]) - 1 \notin claimed
                  THEN Resolved(NoIndex, "not_claimed")
                  ELSE Resolved(IntValue(args[1]) - 1, None)
             ELSE Resolved(NoIndex, None)
        ELSE IF Cardinality(claimed) = 1
        THEN Resolved(CHOOSE i \in claimed : TRUE, None)
        ELSE Resolved(NoIndex, "multiple")

\* variant: claim_print without the claimed_by check
HandleClaimNoCheck(user, i) ==
    /\ IF i \notin DOMAIN active_prints
       THEN /\ did' = Did("claim", user, i, "ended", <<>>, <<>>, <<>>, <<>>)
            /\ UNCHANGED storeVars
       ELSE /\ Stored(ClaimPrint(active_prints, user_preferences, i, user, Username(user)),
                      user_preferences)
            /\ did' = Did("claim", user, i, "claimed",
                          <<>>, <<>>, <<>>, <<>>)
    /\ UNCHANGED <<now, pollerVars, historyVars, dispVars>>
\* handle_claim (lines 465-479)
HandleClaim(user, i) ==
    /\ IF i \notin DOMAIN active_prints
       THEN /\ did' = Did("claim", user, i, "ended", <<>>, <<>>, <<>>, <<>>)
            /\ UNCHANGED storeVars
       ELSE IF active_prints[i].claimed_by # NoUser
       THEN /\ did' = Did("claim", user, i, "already_claimed",
                          <<>>, <<>>, <<>>, <<>>)
            /\ UNCHANGED storeVars
       ELSE /\ Stored(ClaimPrint(active_prints, user_preferences, i, user, Username(user)),
                      user_preferences)
            /\ did' = Did("claim", user, i, "claimed",
                          <<>>, <<>>, <<>>, <<>>)
    /\ UNCHANGED <<now, pollerVars, historyVars, dispVars>>

\* variant: unclaim removes the session
HandleUnclaimCallbackEndsPrint(user, i) ==
    /\ i \in DOMAIN active_prints
    /\ active_prints[i].claimed_by = user
    /\ Stored(EndPrint(active_prints, i), user_preferences)
    /\ did' = Did("unclaim_callback", user, i, "unclaimed",
                  <<>>, <<>>, <<>>, <<>>)
    /\ UNCHANGED <<now, pollerVars, historyVars, dispVars>>
\* handle_unclaim_callback (lines 580-619)
HandleUnclaimCallback(user, i) ==
    /\ IF i \notin DOMAIN active_prints
       THEN /\ did' = Did("unclaim_callback", user, i, "ended", <<>>, <<>>, <<>>, <<>>)
            /\ UNCHANGED storeVars
       ELSE IF active_prints[i].claimed_by # user
       THEN /\ did' = Did("unclaim_callback", user, i, "not_claimer", <<>>, <<>>, <<>>, <<>>)
            /\ UNCHANGED storeVars
       ELSE /\ Stored(UnclaimPrint(active_prints, i), user_preferences)
            /\ did' = Did("unclaim_callback", user, i, "unclaimed", <<>>, <<>>, <<>>, <<>>)
    /\ UNCHANGED <<now, pollerVars, historyVars, dispVars>>

\* handle_unclaim (lines 328-369)
HandleUnclaim(user, args) ==
    LET r == ResolvePrinter(active_prints, user, args)
    IN  /\ IF r.error # None
           THEN /\ did' = Did("unclaim", user, r.index, r.error, <<>>, <<>>, <<>>, args)
                /\ UNCHANGED storeVars
           ELSE IF r.index \notin DOMAIN active_prints
           THEN /\ did' = Did("unclaim", user, r.index, "ended", <<>>, <<>>, <<>>, args)
                /\ UNCHANGED storeVars
           ELSE /\ Stored(UnclaimPrint(active_prints, r.index), user_preferences)
                /\ did' = Did("unclaim", user, r.index, "unclaimed", <<>>, <<>>, <<>>, args)
        /\ UNCHANGED <<now, pollerVars, historyVars, dispVars>>

\* handle_dm_preference (lines 548-560)
HandleDmPreference(user, i, preference) ==
    /\ IF i \in DOMAIN active_prints
       THEN Stored(SetDmPreference(active_prints, i, preference),
                   SetDmPreferenceDefault(active_prints, user_preferences, i, preference))
       ELSE UNCHANGED storeVars
    /\ did' = Did("dm_preference", user, i, preference,
                  <<>>, <<>>, <<>>, <<>>)
    /\ UNCHANGED <<now, pollerVars, historyVars, dispVars>>

\* handle_callback (lines 47-65) for a token "dm_pref_<index>_<preference>", and
\* handle_dm_preference (lines 548-560): int() of the index part either raises, and
\* the handler ends there, or gives the index; the preference part is used as it is
HandleDmPreferenceCallback(user, index, preference) ==
    IF IsInt(index)
    THEN HandleDmPreference(user, IntValue(index), preference)
    ELSE /\ did' = Did("dm_preference", user, NoIndex, "raised", <<>>, <<>>, <<>>, <<>>)
         /\ UNCHANGED <<now, pollerVars, historyVars, storeVars, dispVars>>

\* handle_layer2_toggle (lines 563-577)
HandleLayer2Toggle(user, i) ==
    /\ IF i \notin DOMAIN active_prints
       THEN /\ did' = Did("layer2_toggle", user, i, "ended", <<>>, <<>>, <<>>, <<>>)
            /\ UNCHANGED storeVars
       ELSE /\ Stored(SetLayer2Notify(active_prints, i, ~active_prints[i].layer2_notify),
                      SetLayer2NotifyDefault(active_prints, user_preferences, i,
                                             ~active_prints[i].layer2_notify))
            /\ did' = Did("layer2_toggle", user, i, "toggled",
                          <<>>, <<>>, <<>>, <<>>)
    /\ UNCHANGED <<now, pollerVars, historyVars, dispVars>>

Max(a, b) == IF a > b THEN a ELSE b

\* variant: the quotient is rounded up
PercentToLayerNoFloor(percent, total_layers) ==
    Max(1, (percent * total_layers + 99) \div 100)
\* line 255
PercentToLayer(percent, total_layers) == Max(1, (percent * total_layers) \div 100)

\* lines 206-223: the printer the command is about (NoIndex: none) and the arguments
\* left for the value
NotifyTarget(ap, user_id, args) ==
    LET claimed == ClaimedPrinters(ap, user_id)
        named == /\ Len(args) >= 2
                 /\ IsInt(args[1])
                 /\ 1 <= IntValue(args[1]) /\ IntValue(args[1]) <= NumPrinters
                 /\ (IntValue(args[1]) - 1) \in claimed
    IN  IF named THEN [index |-> IntValue(args[1]) - 1, args |-> Tail(args)]
        ELSE IF Cardinality(claimed) = 1
        THEN [index |-> CHOOSE i \in claimed : TRUE, args |-> args]
        ELSE [index |-> NoIndex, args |-> args]

NotifyReply(user, i, result, input) ==
    /\ did' = Did("notify", user, i, result, <<>>, <<>>, <<>>, input)
    /\ UNCHANGED storeVars

NotifyArm(user, i, layer, notify_type, original_value, input) ==
    /\ Stored(SetNotifyLayer(active_prints, i, layer, notify_type, original_value),
              user_preferences)
    /\ did' = Did("notify", user, i, "armed", <<>>, <<>>, <<>>, input)

\* handle_notify (lines 190-272); ready and total_layers are what mqtt_client_ready()
\* and total_layer_num() return when the command runs
HandleNotify(user, args, ready, total_layers) ==
    LET target == NotifyTarget(active_prints, user, args)
        i == target.index
        arg == target.args[1]
        body == SubSeq(arg, 1, Len(arg) - 1)
    IN  /\ IF ClaimedPrinters(active_prints, user) = {}
           THEN NotifyReply(user, NoIndex, "no_claim", <<>>)
           ELSE IF args = <<>> THEN NotifyReply(user, NoIndex, "usage", <<>>)
           ELSE IF i = NoIndex THEN NotifyReply(user, NoIndex, "multiple", <<>>)
           ELSE IF arg[Len(arg)] = "%"
           THEN IF ~IsInt(body) THEN NotifyReply(user, i, "invalid_percent", <<>>)
                ELSE IF IntValue(body) < 1 \/ IntValue(body) > 100
                THEN NotifyReply(user, i, "bad_percent", <<IntValue(body), total_layers>>)
                ELSE IF ~(printers[i] /\ ready)
                THEN NotifyReply(user, i, "not_connected", <<IntValue(body), total_layers>>)
                ELSE IF total_layers <= 0
                THEN NotifyReply(user, i, "no_total", <<IntValue(body), total_layers>>)
                ELSE NotifyArm(user, i, PercentToLayer(IntValue(body), total_layers),
                               "percent", IntValue(body), <<IntValue(body), total_layers>>)
           ELSE IF ~IsInt(arg) THEN NotifyReply(user, i, "invalid_layer", <<>>)
                ELSE IF IntValue(arg) < 1 THEN NotifyReply(user, i, "bad_layer", <<>>)
                ELSE NotifyArm(user, i, IntValue(arg), "layer", IntValue(arg),
                               <<IntValue(arg)>>)
        /\ UNCHANGED <<now, pollerVars, historyVars, dispVars>>

(***************************************************************************)
(* Specifications                                                          *)
(***************************************************************************)
NoCycle ==
    [printer_index |-> 0, prev |-> "UNKNOWN", prev_print |-> "UNKNOWN",
     fed_before |-> None, new |-> "UNKNOWN",
     new_print |-> "UNKNOWN", at |-> 0, paused_before |-> 0, pause_event_before |-> -1,
     events |-> <<>>]

\* PrinterManager.__init__ (lines 28-35) and Storage.__init__ without a file;
\* connect_all connected printer 1 and failed on printer 2, which stays None
Init ==
    /\ now = StartTime
    /\ printers = [i \in Printers |-> i = 0]
    /\ prev_states = [i \in Printers |-> [gcode_state |-> "UNKNOWN", print_state |-> "UNKNOWN"]]
    /\ prev_layers = [i \in Printers |-> 0]
    /\ last_paused_time = [i \in Printers |-> 0]
    /\ check_i = 0
    /\ cycle = NoCycle
    /\ pause_event_at = [i \in Printers |-> -1]
    /\ fed = [i \in Printers |-> None]
    /\ active_prints = EmptyDict
    /\ user_preferences = EmptyDict
    /\ status_message_id = NoMessage
    /\ data_file = MissingFile
    /\ pending = <<>>
    /\ disp = Idle
    /\ did = NoStep

\* the poller alone, every reading fed to it
NextPoll ==
    \/ \E d \in TickSteps : Tick(d)
    \/ CheckStatesSkip
    \/ \E r \in PollReadings : CheckStatesReady(r)

SpecPoll == Init /\ [][NextPoll]_vars

Texts(numbers) == {Str(n) : n \in numbers}
PercentTexts(numbers) == {text \o <<"%">> : text \in Texts(numbers)}

\* the readings of prints that start and finish, without layer progress
ClaimReadings ==
    {r \in PollReadings :
        /\ r.gcode_state \in {"IDLE", "RUNNING", "FINISH"}
        /\ r.print_state = "PRINTING"
        /\ r.layer = 0}

UnclaimArgs == {<<>>} \cup {<<text>> : text \in Texts(1 .. NumPrinters)}

\* two users claim, unclaim and choose where the finished print goes, while prints
\* start and finish
NextClaim ==
    \/ MonitorSkip
    \/ \E r \in ClaimReadings : MonitorCheck(r)
    \/ HandleStateChanged
    \/ \E delivered \in BOOLEAN, m \in MessageIds, t \in PrintTimes :
          HandlePrintStarted(delivered, m, t)
    \/ \E photo \in BOOLEAN : HandlePrintFinishedSend(photo)
    \/ \E delivered \in BOOLEAN : HandlePrintFinishedSent(delivered)
    \/ \E user \in Users, i \in Printers : HandleClaim(user, i)
    \/ \E user \in Users, i \in Printers : HandleUnclaimCallback(user, i)
    \/ \E user \in Users, args \in UnclaimArgs : HandleUnclaim(user, args)
    \/ \E user \in Users, i \in Printers, preference \in {"chat", "dm"} :
          HandleDmPreference(user, i, preference)

SpecClaim == Init /\ [][NextClaim]_vars

\* two users claim prints and press the preference buttons of their settings
\* messages, those of finished prints included
NextPrefs ==
    \/ MonitorSkip
    \/ \E r \in ClaimReadings : MonitorCheck(r)
    \/ HandleStateChanged
    \/ \E t \in PrintTimes : HandlePrintStarted(TRUE, 11, t)
    \/ HandlePrintFinishedSend(FALSE)
    \/ HandlePrintFinishedSent(TRUE)
    \/ \E user \in Users, i \in Printers : HandleClaim(user, i)
    \/ \E user \in Users, i \in Printers, preference \in {"chat", "dm"} :
          HandleDmPreference(user, i, preference)
    \/ \E user \in Users, i \in Printers : HandleLayer2Toggle(user, i)

SpecPrefs == Init /\ [][NextPrefs]_vars

\* the readings of a print that starts and advances through its layers
LayerReadings ==
    {r \in PollReadings :
        /\ r.gcode_state \in {"IDLE", "RUNNING"}
        /\ r.print_state = "PRINTING"}

NotifyArgs == {<<text>> : text \in Texts(1 .. MaxLayer) \cup PercentTexts({50})}

\* one user claims a print and arms targets while the print advances
NextNotify ==
    \/ MonitorSkip
    \/ \E r \in LayerReadings : MonitorCheck(r)
    \/ HandleStateChanged
    \/ \E delivered \in BOOLEAN, m \in {11}, t \in PrintTimes :
          HandlePrintStarted(delivered, m, t)
    \/ HandleLayerChanged
    \/ \E delivered \in BOOLEAN : Layer2Sent(delivered)
    \/ \E delivered \in BOOLEAN : CustomSent(delivered)
    \/ \E i \in Printers : HandleClaim(7, i)
    \/ \E i \in Printers : HandleLayer2Toggle(7, i)
    \/ \E args \in NotifyArgs, ready \in BOOLEAN, total_layers \in 0 .. MaxTotalLayers :
          HandleNotify(7, args, ready, total_layers)

SpecNotify == Init /\ [][NextNotify]_vars

\* the readings of a print that starts
StartReadings == {r \in LayerReadings : r.layer = 0}

\* what total_layer_num() may return: nothing yet, a few layers, the 200 of a long print
TotalLayers == (0 .. MaxTotalLayers) \cup {200}

\* percentages at and around the ends of 1..100, and some between
Percents == {0, 1, 33, 50, 75, 100, 101}

PercentArgs == {<<text>> : text \in PercentTexts(Percents)}

\* one user arms percentages against layer counts
NextPercent ==
    \/ MonitorSkip
    \/ \E r \in StartReadings : MonitorCheck(r)
    \/ HandleStateChanged
    \/ \E t \in PrintTimes : HandlePrintStarted(TRUE, 11, t)
    \/ HandleClaim(7, 0)
    \/ \E args \in PercentArgs, ready \in BOOLEAN, total_layers \in TotalLayers :
          HandleNotify(7, args, ready, total_layers)

SpecPercent == Init /\ [][NextPercent]_vars

\* connect_all connected every printer
InitConnected ==
    /\ now = StartTime
    /\ printers = [i \in Printers |-> TRUE]
    /\ prev_states = [i \in Printers |-> [gcode_state |-> "UNKNOWN", print_state |-> "UNKNOWN"]]
    /\ prev_layers = [i \in Printers |-> 0]
    /\ last_paused_time = [i \in Printers |-> 0]
    /\ check_i = 0
    /\ cycle = NoCycle
    /\ pause_event_at = [i \in Printers |-> -1]
    /\ fed = [i \in Printers |-> None]
    /\ active_prints = EmptyDict
    /\ user_preferences = EmptyDict
    /\ status_message_id = NoMessage
    /\ data_file = MissingFile
    /\ pending = <<>>
    /\ disp = Idle
    /\ did = NoStep

\* /unclaim with no argument, a printer number in and out of range, a word
ResolveArgs == {<<>>} \cup {<<text>> : text \in Texts(0 .. NumPrinters + 1) \cup {<<"x">>}}

\* prints start on every printer; two users claim them and unclaim by command
NextResolve ==
    \/ MonitorSkip
    \/ \E r \in StartReadings : MonitorCheck(r)
    \/ HandleStateChanged
    \/ \E t \in PrintTimes : HandlePrintStarted(TRUE, 11, t)
    \/ \E user \in Users, i \in Printers : HandleClaim(user, i)
    \/ \E user \in Users, args \in ResolveArgs : HandleUnclaim(user, args)

SpecResolve == InitConnected /\ [][NextResolve]_vars

\* the dispatcher with sends that return or raise, for a print one user claims
NextDispatch ==
    \/ MonitorSkip
    \/ \E r \in LayerReadings : MonitorCheck(r)
    \/ HandleStateChanged
    \/ \E delivered \in BOOLEAN, t \in PrintTimes : HandlePrintStarted(delivered, 11, t)
    \/ HandleLayerChanged
    \/ \E delivered \in BOOLEAN : Layer2Sent(delivered)
    \/ \E i \in Printers : HandleClaim(7, i)

SpecDispatch == InitConnected /\ [][NextDispatch]_vars

\* the program is started again: a new PrinterManager (manager.py lines 28-35) and a
\* new Storage, whose __init__ loads the file it finds (storage.py lines 28-49)
Restart(file) ==
    /\ file \in StartupFiles(data_file)
    /\ data_file' = file
    /\ active_prints' = Load(file)[1]
    /\ user_preferences' = Load(file)[2]
    /\ status_message_id' = Load(file)[3]
    /\ prev_states' = [i \in Printers |-> [gcode_state |-> "UNKNOWN", print_state |-> "UNKNOWN"]]
    /\ prev_layers' = [i \in Printers |-> 0]
    /\ last_paused_time' = [i \in Printers |-> 0]
    /\ check_i' = 0
    /\ cycle' = NoCycle
    /\ pause_event_at' = [i \in Printers |-> -1]
    /\ fed' = [i \in Printers |-> None]
    /\ pending' = <<>>
    /\ disp' = Idle
    /\ did' = Did("startup", NoUser, 0, LoadResult(file), <<>>, <<>>, <<>>, <<>>)
    /\ UNCHANGED <<now, printers>>

\* prints start and are claimed, preferences are stored, and the program is started
\* again on the file it left or on a damaged one
NextLoad ==
    \/ MonitorSkip
    \/ \E r \in StartReadings : MonitorCheck(r)
    \/ HandleStateChanged
    \/ \E t \in PrintTimes : HandlePrintStarted(TRUE, 11, t)
    \/ \E i \in Printers : HandleClaim(7, i)
    \/ \E i \in Printers : HandleLayer2Toggle(7, i)
    \/ \E file \in StartupFiles(data_file) : Restart(file)

SpecLoad == InitConnected /\ [][NextLoad]_vars

\* the readings of a print under way that pauses and resumes
SkipReadings ==
    {r \in PollReadings :
        /\ r.gcode_state \in {"RUNNING", "PAUSE"}
        /\ r.print_state = "PRINTING"
        /\ r.error_code = 0}

\* the poller with every printer connected, each ready in some passes and not in others
NextSkip ==
    \/ \E d \in TickSteps : Tick(d)
    \/ CheckStatesSkip
    \/ \E r \in SkipReadings : CheckStatesReady(r)

SpecSkip == InitConnected /\ [][NextSkip]_vars

\* the readings of a print that starts, advances and fails
FaultReadings ==
    {r \in PollReadings :
        /\ r.gcode_state \in {"IDLE", "RUNNING", "FAILED"}
        /\ r.print_state = "PRINTING"}

\* the monitor loop with device and gateway calls that raise
NextFault ==
    \/ MonitorSkip
    \/ \E r \in FaultReadings : MonitorCheck(r)
    \/ \E r \in FaultReadings, at \in RaisePoints : MonitorCheckRaises(r, at)
    \/ MonitorReadinessRaises
    \/ \E what \in UncaughtCalls : MonitorPassRaises(what)
    \/ \E what \in CaughtCalls : MonitorPassCaught(what)
    \/ HandleStateChanged
    \/ \E delivered \in BOOLEAN : HandleLogged(delivered)
    \/ \E delivered \in BOOLEAN, t \in PrintTimes : HandlePrintStarted(delivered, 11, t)
    \/ HandleLayerChanged

SpecFault == InitConnected /\ [][NextFault]_vars

\* the readings of a print that starts, advances through its layers and finishes
StoreReadings ==
    {r \in PollReadings :
        /\ r.gcode_state \in {"IDLE", "RUNNING", "FINISH"}
        /\ r.print_state = "PRINTING"}

\* every mutator of the store at work for one user, and the program started again on
\* the file it left
NextStore ==
    \/ MonitorSkip
    \/ \E r \in StoreReadings : MonitorCheck(r)
    \/ \E m \in MessageIds : UpdateStatusMessage(m)
    \/ HandleStateChanged
    \/ \E t \in PrintTimes : HandlePrintStarted(TRUE, 11, t)
    \/ HandlePrintFinishedSend(FALSE)
    \/ HandlePrintFinishedSent(TRUE)
    \/ HandleLayerChanged
    \/ Layer2Sent(TRUE)
    \/ \E i \in Printers : HandleClaim(7, i)
    \/ \E i \in Printers, preference \in {"chat", "dm"} : HandleDmPreference(7, i, preference)
    \/ \E i \in Printers : HandleLayer2Toggle(7, i)
    \/ Restart(data_file)

SpecStore == Init /\ [][NextStore]_vars

\* the readings of prints that start, reach layer 2, pause, fail and finish; the
\* print status follows the gcode state or, with a failure, lags behind it
SessionReadings ==
    {r \in PollReadings :
        /\ r.layer \in {0, 2} /\ r.error_code = 0
        /\ \/ r.print_state = "PRINTING"
           \/ r.print_state = "IDLE" /\ r.gcode_state = "FAILED"}

\* every event type handled, with sends that return or raise, while one user claims,
\* unclaims, toggles the layer-2 notification and arms a layer target
NextSession ==
    \/ MonitorSkip
    \/ \E r \in SessionReadings : MonitorCheck(r)
    \/ HandleStateChanged
    \/ \E delivered \in BOOLEAN : HandleLogged(delivered)
    \/ \E delivered \in BOOLEAN, m \in MessageIds, t \in PrintTimes :
          HandlePrintStarted(delivered, m, t)
    \/ HandlePrintFinishedSend(FALSE)
    \/ \E delivered \in BOOLEAN : HandlePrintFinishedSent(delivered)
    \/ HandleLayerChanged
    \/ \E delivered \in BOOLEAN : Layer2Sent(delivered)
    \/ \E delivered \in BOOLEAN : CustomSent(delivered)
    \/ \E i \in Printers : HandleClaim(7, i)
    \/ \E i \in Printers : HandleUnclaimCallback(7, i)
    \/ \E i \in Printers : HandleLayer2Toggle(7, i)
    \/ HandleNotify(7, <<Str(2)>>, TRUE, 0)

SpecSession == Init /\ [][NextSession]_vars

\* the values of /notify: layers and percentages in and out of range, a word, a bare
\* percent sign
NotifyValues == Texts({0, 2}) \cup PercentTexts({50, 101}) \cup {<<"x">>, <<"%">>}

\* /notify with no argument, with a value, and with a printer number and a value
CommandArgs ==
    {<<>>} \cup {<<value>> : value \in NotifyValues}
           \cup {<<number, value>> : number \in Texts(1 .. NumPrinters), value \in NotifyValues}

\* one user claims a print and sends /notify with good and bad arguments
NextCommand ==
    \/ MonitorSkip
    \/ \E r \in StartReadings : MonitorCheck(r)
    \/ HandleStateChanged
    \/ \E t \in PrintTimes : HandlePrintStarted(TRUE, 11, t)
    \/ HandleClaim(7, 0)
    \/ \E args \in CommandArgs, ready \in BOOLEAN, total_layers \in {0, MaxTotalLayers} :
          HandleNotify(7, args, ready, total_layers)

SpecCommand == Init /\ [][NextCommand]_vars

\* the index parts of callback tokens: the printers, a number past the last printer,
\* a negative number and a word
IndexTokens == Texts(0 .. NumPrinters) \cup {<<"-", "1">>, <<"x">>}

\* the preference parts of callback tokens: the two of the buttons and another word
PreferenceTokens == {"chat", "dm", "both"}

\* one user claims a print, and dm_pref callbacks arrive with the tokens of the
\* buttons and with other tokens
NextCallback ==
    \/ MonitorSkip
    \/ \E r \in StartReadings : MonitorCheck(r)
    \/ HandleStateChanged
    \/ \E t \in PrintTimes : HandlePrintStarted(TRUE, 11, t)
    \/ HandleClaim(7, 0)
    \/ \E user \in Users, index \in IndexTokens, preference \in PreferenceTokens :
          HandleDmPreferenceCallback(user, index, preference)

SpecCallback == Init /\ [][NextCallback]_vars

\* what the device reports while a print advances: the layers of a print do not go
\* back, and a poll may miss layers (from 1 to the layer after MaxLayer)
JumpReadings ==
    {r \in {Reading(g, "PRINTING", l, 0, IF g = "RUNNING" THEN 90 ELSE 0) :
                g \in {"IDLE", "RUNNING"}, l \in {0, 1, 2, MaxLayer + 1}} :
        /\ r.gcode_state # "RUNNING" => r.layer = 0
        /\ (r.gcode_state = "RUNNING" /\ prev_states[check_i].gcode_state = "RUNNING")
              => r.layer >= prev_layers[check_i]}

\* a print advances through its layers, some of them missed by the poller, while a
\* user claims and unclaims it before or after layer 2
NextJump ==
    \/ MonitorSkip
    \/ \E r \in JumpReadings : MonitorCheck(r)
    \/ HandleStateChanged
    \/ \E t \in PrintTimes : HandlePrintStarted(TRUE, 11, t)
    \/ HandleLayerChanged
    \/ \E delivered \in BOOLEAN : Layer2Sent(delivered)
    \/ HandleClaim(7, 0)
    \/ HandleUnclaimCallback(7, 0)

SpecJump == Init /\ [][NextJump]_vars

\* the whole program
Monitor ==
    \/ MonitorSkip
    \/ \E r \in PollReadings : MonitorCheck(r)
    \/ \E r \in PollReadings, at \in RaisePoints : MonitorCheckRaises(r, at)
    \/ MonitorReadinessRaises
    \/ \E what \in UncaughtCalls : MonitorPassRaises(what)
    \/ \E what \in CaughtCalls : MonitorPassCaught(what)
    \/ \E m \in MessageIds : UpdateStatusMessage(m)

Dispatcher ==
    \/ HandleStateChanged
    \/ \E delivered \in BOOLEAN : HandleLogged(delivered)
    \/ \E delivered \in BOOLEAN, m \in MessageIds, t \in PrintTimes :
          HandlePrintStarted(delivered, m, t)
    \/ \E photo \in BOOLEAN : HandlePrintFinishedSend(photo)
    \/ \E delivered \in BOOLEAN : HandlePrintFinishedSent(delivered)
    \/ HandleLayerChanged
    \/ \E delivered \in BOOLEAN : Layer2Sent(delivered)
    \/ \E delivered \in BOOLEAN : CustomSent(delivered)

Callbacks ==
    \E user \in Users, i \in Printers :
        \/ HandleClaim(user, i)
        \/ HandleUnclaimCallback(user, i)
        \/ \E preference \in {"chat", "dm"} : HandleDmPreference(user, i, preference)
        \/ HandleLayer2Toggle(user, i)

Commands ==
    \E user \in Users :
        \/ \E args \in UnclaimArgs : HandleUnclaim(user, args)
        \/ \E args \in NotifyArgs, ready \in BOOLEAN, total_layers \in 0 .. MaxTotalLayers :
              HandleNotify(user, args, ready, total_layers)

Next ==
    \/ \E d \in TickSteps : Tick(d)
    \/ Monitor
    \/ Dispatcher
    \/ Callbacks
    \/ Commands

Spec == Init /\ [][Next]_vars

(***************************************************************************)
(* The poller's events against the readings fed to it (SpecPoll).          *)
(***************************************************************************)
Ran == cycle.fed_before # None \/ cycle.events # <<>> \/ fed[cycle.printer_index] # None

\* C1: a cycle yields exactly one PRINT_STARTED when the previous reading fed was IDLE,
\* FINISH or PREPARE and the new one is RUNNING, and none for any other pair of
\* consecutive readings, so the events count the start transitions.
C1_PrintStartedPerStart ==
    CountType("PRINT_STARTED", cycle.events) =
        (IF cycle.fed_before \in {"IDLE", "FINISH", "PREPARE"} /\ cycle.new = "RUNNING"
         THEN 1 ELSE 0)

C1_Witness ==
    /\ cycle.fed_before = "PREPARE" /\ cycle.new = "RUNNING"
    /\ CountType("PRINT_STARTED", cycle.events) = 1

\* C2: a cycle yields exactly one PRINT_FINISHED when the previous reading fed was known,
\* was not FINISH, and the new one is FINISH; it yields none otherwise, in particular
\* none while the readings stay FINISH.
C2_PrintFinishedPerFinish ==
    CountType("PRINT_FINISHED", cycle.events) =
        (IF cycle.fed_before \notin {None, "UNKNOWN", "FINISH"} /\ cycle.new = "FINISH"
         THEN 1 ELSE 0)

C2_Witness ==
    /\ cycle.fed_before = "RUNNING" /\ cycle.new = "FINISH"
    /\ CountType("PRINT_FINISHED", cycle.events) = 1

\* C3: a reading taken while the remembered gcode_state and print_status are UNKNOWN
\* yields no STATE_CHANGED and no PRINT_STARTED, PRINT_FINISHED, PRINT_FAILED or
\* PRINT_PAUSED; the reading becomes the remembered state and the last-paused
\* timestamp stays.
C3_UnknownBaselineIsSilent ==
    (Ran /\ cycle.prev = "UNKNOWN" /\ cycle.prev_print = "UNKNOWN") =>
        /\ \A k \in 1 .. Len(cycle.events) : cycle.events[k].type = "LAYER_CHANGED"
        /\ prev_states[cycle.printer_index] =
               [gcode_state |-> cycle.new, print_state |-> cycle.new_print]
        /\ last_paused_time[cycle.printer_index] = cycle.paused_before

C3_Witness ==
    /\ Ran /\ cycle.prev = "UNKNOWN" /\ cycle.prev_print = "UNKNOWN"
    /\ cycle.fed_before = None
    /\ cycle.new = "FINISH" /\ cycle.new_print = "IDLE"
    /\ prev_states[cycle.printer_index].gcode_state = "FINISH"

\* C4: a RUNNING -> PAUSE pair yields one PRINT_PAUSED when the printer's previous
\* PRINT_PAUSED is more than 60 seconds old (or there was none) and none when it is
\* at most 60 seconds old; no other pair yields one; so two PRINT_PAUSED of a printer
\* are more than 60 seconds apart, and a suppressed pause leaves the last-paused
\* timestamp where it was.
C4_PauseDebounce ==
    /\ CountType("PRINT_PAUSED", cycle.events) =
          (IF /\ cycle.fed_before = "RUNNING" /\ cycle.new = "PAUSE"
              /\ \/ cycle.pause_event_before = -1
                 \/ cycle.at - cycle.pause_event_before > 60
           THEN 1 ELSE 0)
    /\ (CountType("PRINT_PAUSED", cycle.events) > 0 /\ cycle.pause_event_before # -1)
          => cycle.at - cycle.pause_event_before > 60
    /\ (cycle.fed_before = "RUNNING" /\ cycle.new = "PAUSE"
          /\ CountType("PRINT_PAUSED", cycle.events) = 0)
          => last_paused_time[cycle.printer_index] = cycle.paused_before

\* the second pause of RUNNING, PAUSE, RUNNING, PAUSE, 30 seconds after the first
C4_Witness ==
    /\ cycle.fed_before = "RUNNING" /\ cycle.new = "PAUSE"
    /\ cycle.pause_event_before # -1
    /\ cycle.at - cycle.pause_event_before = 30
    /\ CountType("PRINT_PAUSED", cycle.events) = 0
    /\ last_paused_time[cycle.printer_index] = cycle.pause_event_before

(***************************************************************************)
(* Claiming, unclaiming and the end of a print (SpecClaim).                *)
(***************************************************************************)
\* C5: a claim callback on a session that is already claimed leaves the claimer and
\* the claimer's name as they are and answers 'already claimed'; a claim on an
\* unclaimed session makes the caller the claimer, so of two claims on an unclaimed
\* session, in either order, the first becomes the claimer and the second is refused.
C5_ClaimIdempotent ==
    [][(did'.op = "claim" /\ did'.printer_index \in DOMAIN active_prints) =>
          LET i == did'.printer_index
          IN  IF active_prints[i].claimed_by # NoUser
              THEN /\ did'.result = "already_claimed"
                   /\ active_prints' = active_prints
              ELSE /\ did'.result = "claimed"
                   /\ active_prints'[i].claimed_by = did'.user
                   /\ active_prints'[i].claimed_username = Username(did'.user)]_vars

\* user 42 claims the print user 7 has claimed
C5_Witness ==
    /\ did.op = "claim" /\ did.user = 42 /\ did.result = "already_claimed"
    /\ active_prints[did.printer_index].claimed_by = 7
    /\ active_prints[did.printer_index].claimed_username = Username(7)

\* C6: an unclaim that succeeds, by command or by callback, leaves the session of the
\* printer in the store with its message_id and chat_id and with no claimer; a session
\* leaves the store only in the handling of a PRINT_FINISHED event.
C6_UnclaimKeepsSession ==
    [][/\ (did'.op \in {"unclaim", "unclaim_callback"} /\ did'.result = "unclaimed") =>
             LET i == did'.printer_index
             IN  /\ i \in DOMAIN active_prints
                 /\ i \in DOMAIN active_prints'
                 /\ active_prints'[i].message_id = active_prints[i].message_id
                 /\ active_prints'[i].chat_id = active_prints[i].chat_id
                 /\ active_prints'[i].claimed_by = NoUser
       /\ (DOMAIN active_prints \ DOMAIN active_prints' # {}) =>
             /\ did'.op = "handled"
             /\ did'.event[1].type = "PRINT_FINISHED"]_vars

\* the claimer has unclaimed by command; the session is still there
C6_Witness ==
    /\ did.op = "unclaim" /\ did.result = "unclaimed"
    /\ did.printer_index \in DOMAIN active_prints
    /\ active_prints[did.printer_index].claimed_by = NoUser
    /\ active_prints[did.printer_index].message_id \in MessageIds

\* C7: once the dispatcher has handled a PRINT_FINISHED event of a printer, the store
\* has no session for that printer, whatever the session was and whether or not the
\* announcement was delivered.
C7_FinishedEndsSession ==
    (did.op = "handled" /\ did.event[1].type = "PRINT_FINISHED") =>
        did.printer_index \notin DOMAIN active_prints

\* the announcement of a claimed print was not delivered, and the session is still there
C7_SessionLeftBehind ==
    /\ did.op = "handled" /\ did.event[1].type = "PRINT_FINISHED"
    /\ did.result = "raised"
    /\ did.printer_index \in DOMAIN active_prints
    /\ active_prints[did.printer_index].claimed_by # NoUser

\* C10: saving the store and loading the file into a fresh Storage gives the same
\* active_prints and user_preferences: the same integer keys, the same fields.
C10_RoundTrip ==
    /\ Load(Save(active_prints, user_preferences)) =
          <<active_prints, user_preferences, status_message_id>>
    /\ Load(data_file) = <<active_prints, user_preferences, status_message_id>>

\* a claimed session and the claimer's preferences are in the file
C10_Witness ==
    /\ 0 \in DOMAIN active_prints /\ active_prints[0].claimed_by = 42
    /\ active_prints[0].dm_preference = "dm"
    /\ 42 \in DOMAIN user_preferences
    /\ data_file.exists
    /\ 0 \in DOMAIN Load(data_file)[1] /\ Load(data_file)[1][0].claimed_by = 42
    /\ 42 \in DOMAIN Load(data_file)[2]

(***************************************************************************)
(* The custom notification (SpecNotify, SpecPercent).                      *)
(***************************************************************************)
CustomsSent == Cardinality({k \in 1 .. Len(did.sent) : did.sent[k].kind = "custom"})

\* C8: the handling of a LAYER_CHANGED event sends at most one custom DM, and one only
\* for a claimed session armed with a target, not yet notified, that the layer has
\* reached; when the layer has reached the target of such a session the DM is sent to
\* the claimer and notify_layer_notified is set, so that no later layer sends another.
C8_CustomNotifyOnceAtThreshold ==
    (did.op = "handled" /\ did.event[1].type = "LAYER_CHANGED") =>
        LET i == did.printer_index
            layer == did.event[1].layer
        IN  /\ CustomsSent <= 1
            /\ CustomsSent = 1 =>
                  /\ did.seen # <<>>
                  /\ did.seen[1].claimed_by # NoUser
                  /\ did.seen[1].notify_layer # NoLayer
                  /\ ~did.seen[1].notify_layer_notified
                  /\ layer >= did.seen[1].notify_layer
            /\ did.seen # <<>> => CustomsSent = 1
            /\ (/\ i \in DOMAIN active_prints
                /\ active_prints[i].claimed_by # NoUser
                /\ active_prints[i].notify_layer # NoLayer
                /\ layer >= active_prints[i].notify_layer) =>
                  active_prints[i].notify_layer_notified

\* the DM of a reached target was not delivered: the target stays armed
C8_TargetStillArmed ==
    /\ did.op = "handled" /\ did.event[1].type = "LAYER_CHANGED"
    /\ did.result = "raised"
    /\ did.seen # <<>>
    /\ CustomsSent = 0
    /\ did.printer_index \in DOMAIN active_prints
    /\ ~active_prints[did.printer_index].notify_layer_notified

\* the integer part of n / d
FloorDiv(n, d) == CHOOSE q \in 0 .. n : d * q <= n /\ n < d * (q + 1)

\* C9: /notify <percent>% with percent in 1..100, a printer that is connected and a
\* total_layers > 0 arms notify_layer = max(1, floor(percent * total_layers / 100)),
\* notify_type = percent and notify_original_value = percent; afterwards the target
\* of the session changes only when a /notify arms a new one.
C9_PercentToLayer ==
    /\ [](((did.op = "notify" /\ Len(did.input) = 2) /\ did.input[1] \in 1 .. 100
              /\ did.input[2] > 0 /\ did.result # "not_connected") =>
            /\ did.result = "armed"
            /\ did.printer_index \in DOMAIN active_prints
            /\ active_prints[did.printer_index].notify_layer =
                  Max(1, FloorDiv(did.input[1] * did.input[2], 100))
            /\ active_prints[did.printer_index].notify_type = "percent"
            /\ active_prints[did.printer_index].notify_original_value = did.input[1])
    /\ [][\A i \in DOMAIN active_prints \cap DOMAIN active_prints' :
             (\/ active_prints'[i].notify_layer # active_prints[i].notify_layer
              \/ active_prints'[i].notify_type # active_prints[i].notify_type
              \/ active_prints'[i].notify_original_value
                    # active_prints[i].notify_original_value) =>
                \/ did'.op = "notify" /\ did'.result = "armed" /\ did'.printer_index = i
                \/ did'.op = "handled" /\ did'.event[1].type = "PRINT_STARTED"]_vars

\* 75% of 200 layers arms layer 150
C9_Witness ==
    /\ did.op = "notify" /\ did.result = "armed" /\ did.input = <<75, 200>>
    /\ active_prints[did.printer_index].notify_layer = 150
    /\ active_prints[did.printer_index].notify_type = "percent"
    /\ active_prints[did.printer_index].notify_original_value = 75

(***************************************************************************)
(* Printer resolution (SpecResolve).                                       *)
(***************************************************************************)
\* C11: /unclaim with no printer argument resolves, for a user with no claimed
\* session, to an error and no index; for a user with exactly one claimed session, to
\* the index of that session and no error; for a user with two or more claimed
\* sessions, to an error that asks for the printer number and no index.
C11_ImplicitResolution ==
    [][(did'.op = "unclaim" /\ did'.input = <<>>) =>
          LET claimed == {i \in DOMAIN active_prints :
                             active_prints[i].claimed_by = did'.user}
          IN  /\ claimed = {} =>
                    did'.result = "no_claim" /\ did'.printer_index = NoIndex
              /\ Cardinality(claimed) = 1 =>
                    did'.result = "unclaimed" /\ did'.printer_index \in claimed
              /\ Cardinality(claimed) >= 2 =>
                    did'.result = "multiple" /\ did'.printer_index = NoIndex]_vars

\* user 7 holds both prints and gives no printer number
C11_Witness ==
    /\ did.op = "unclaim" /\ did.user = 7 /\ did.input = <<>>
    /\ did.result = "multiple" /\ did.printer_index = NoIndex
    /\ \A i \in Printers : i \in DOMAIN active_prints /\ active_prints[i].claimed_by = 7

(***************************************************************************)
(* Layer-2 notification (SpecNotify).                                      *)
(***************************************************************************)
Layer2s(sent) == Cardinality({k \in 1 .. Len(sent) : sent[k].kind = "layer2"})

\* C12: the handling of a LAYER_CHANGED event sends the layer-2 DM exactly when the
\* layer is 2 and the session is claimed, has layer2_notify set and layer2_notified
\* unset; that handling sends one DM to the claimer and sets layer2_notified, so that
\* a session gets at most one layer-2 DM.
C12_Layer2NotifyOnce ==
    [][/\ (CanHandle("LAYER_CHANGED") /\ dispVars' # dispVars) =>
             ((disp'.pc = "layer2_send") =
                 (/\ Head(pending).layer = 2
                  /\ Layer2Armed(active_prints, Head(pending).printer_index)))
       /\ (disp.pc = "layer2_send" /\ disp'.pc # "layer2_send") =>
             LET i == disp.printer_index
                 sent == IF disp'.pc = "custom_send" THEN disp'.sent ELSE did'.sent
             IN  /\ i \in DOMAIN active_prints => active_prints'[i].layer2_notified
                 /\ Layer2s(sent) = 1
                 /\ \A k \in 1 .. Len(sent) :
                       sent[k].kind = "layer2" =>
                          sent[k].chat = "dm" /\ sent[k].user = disp.message[1].user]_vars

\* the layer-2 send raised: the session is still armed after its event was handled
C12_StillArmed ==
    /\ did.op = "handled" /\ did.result = "raised"
    /\ did.event[1].type = "LAYER_CHANGED" /\ did.event[1].layer = 2
    /\ Layer2s(did.sent) = 0
    /\ Layer2Armed(active_prints, did.printer_index)

(***************************************************************************)
(* Finished-print routing (SpecClaim).                                     *)
(***************************************************************************)
\* C13: the finished-print announcement goes to the claimer's DM, and not to the main
\* chat, exactly when the session exists, is claimed and has dm_preference "dm"; with
\* no session, an unclaimed session or preference "chat" it goes to the main chat;
\* it carries the claimer's name exactly when the session is claimed; a send that
\* returns delivered that announcement and no other.
C13_FinishedRouting ==
    [][/\ (disp.pc = "idle" /\ disp'.pc = "finished_send") =>
             LET i == disp'.printer_index
                 m == disp'.message[1]
                 claimed == i \in DOMAIN active_prints /\ active_prints[i].claimed_by # NoUser
             IN  /\ Len(disp'.message) = 1 /\ m.kind = "finished"
                 /\ (m.chat = "dm") = (claimed /\ active_prints[i].dm_preference = "dm")
                 /\ m.chat = "dm" => m.user = active_prints[i].claimed_by
                 /\ m.chat # "dm" => m.chat = "main" /\ m.user = NoUser
                 /\ m.name = IF claimed THEN active_prints[i].claimed_username ELSE None
       /\ (disp.pc = "finished_send" /\ disp'.pc = "idle" /\ did'.result = "ok") =>
             did'.sent = disp.message]_vars

\* a print of user 42 with preference "dm" finished: the announcement went to 42
C13_Witness ==
    /\ did.op = "handled" /\ did.result = "ok"
    /\ did.event[1].type = "PRINT_FINISHED"
    /\ Len(did.sent) = 1
    /\ did.sent[1].chat = "dm" /\ did.sent[1].user = 42
    /\ did.sent[1].name = Username(42)

(***************************************************************************)
(* Preferences (SpecClaim, SpecPrefs).                                     *)
(***************************************************************************)
\* C14: after a successful claim by a user the session's dm_preference and
\* layer2_notify are that user's stored UserPreferences if the user has any, and the
\* defaults ("chat", TRUE) if not, whatever the session held before the claim.
C14_ClaimSeedsPreferences ==
    [][(did'.op = "claim" /\ did'.result = "claimed") =>
          LET i == did'.printer_index
              u == did'.user
          IN  /\ active_prints'[i].dm_preference =
                    (IF u \in DOMAIN user_preferences
                     THEN user_preferences[u].default_dm_preference ELSE "chat")
              /\ active_prints'[i].layer2_notify =
                    (IF u \in DOMAIN user_preferences
                     THEN user_preferences[u].layer2_notify ELSE TRUE)]_vars

\* a user without stored preferences claimed a session that a callback had set to "dm"
C14_PreferenceKept ==
    /\ did.op = "claim" /\ did.result = "claimed"
    /\ did.user \notin DOMAIN user_preferences
    /\ active_prints[did.printer_index].claimed_by = did.user
    /\ active_prints[did.printer_index].dm_preference = "dm"

\* C15: a dm-preference or layer-2-toggle callback of a user that changes a session
\* creates or updates that user's UserPreferences with the new value, and changes no
\* other user's UserPreferences.
C15_PreferencePersistsForActor ==
    [][(did'.op \in {"dm_preference", "layer2_toggle"} /\ active_prints' # active_prints) =>
          LET i == did'.printer_index
              u == did'.user
          IN  /\ u \in DOMAIN user_preferences'
              /\ did'.op = "dm_preference" =>
                    user_preferences'[u].default_dm_preference = active_prints'[i].dm_preference
              /\ did'.op = "layer2_toggle" =>
                    user_preferences'[u].layer2_notify = active_prints'[i].layer2_notify
              /\ \A v \in DOMAIN user_preferences' \ {u} :
                    v \in DOMAIN user_preferences /\ user_preferences'[v] = user_preferences[v]]_vars

\* user 7 pressed a button on the print that 42 holds: the default of 42 changed
C15_OtherUsersDefault ==
    /\ did.op = "dm_preference" /\ did.user = 7 /\ did.result = "dm"
    /\ did.printer_index \in DOMAIN active_prints
    /\ active_prints[did.printer_index].claimed_by = 42
    /\ 7 \notin DOMAIN user_preferences
    /\ 42 \in DOMAIN user_preferences /\ user_preferences[42].default_dm_preference = "dm"

(***************************************************************************)
(* Faults of device and gateway calls (SpecFault).                         *)
(***************************************************************************)
\* C16: an exception raised while the readiness of printer i is checked, or while its
\* state is read or diffed, does not abort the pass: the loop is still running and goes
\* on to printer i + 1, and what the run of printer i had yielded awaits its handling.
C16_PollFaultIsolated ==
    [][(~Dispatching /\ did'.op = "check") =>
          /\ disp'.pc = "idle"
          /\ check_i' = NextPrinter(check_i)
          /\ \A k \in 1 .. Len(pending') : pending'[k].printer_index = check_i]_vars

\* the readiness check of printer 0 raised: printer 1, ready, is never diffed
C16_PassAborted ==
    /\ did.op = "check" /\ did.result = "readiness_raised" /\ did.printer_index = 0
    /\ check_i = 0
    /\ printers[1]
    /\ disp.pc = "crashed"

(***************************************************************************)
(* Printers that are absent or not ready (SpecSkip).                       *)
(***************************************************************************)
\* C17: a step of the pass that is not a run of _check_printer_state (the printer is
\* absent or not ready) yields no event and leaves the remembered gcode_state,
\* print_state, layer and last-paused timestamp of every printer as they are, and a
\* run for one printer leaves those of the others; so the remembered gcode_state of a
\* printer is the one last read while it was ready, and the next run diffs against it.
C17_SkipKeepsBaseline ==
    /\ [](/\ \A i \in Printers :
               prev_states[i].gcode_state = (IF fed[i] = None THEN "UNKNOWN" ELSE fed[i])
          /\ Ran => cycle.prev = (IF cycle.fed_before = None THEN "UNKNOWN"
                                  ELSE cycle.fed_before))
    /\ [][/\ \/ UNCHANGED <<prev_states, prev_layers, last_paused_time, cycle>>
             \/ \E r \in PollReadings : CheckStatesReady(r)
          /\ \A i \in Printers \ {check_i} :
                /\ prev_states'[i] = prev_states[i]
                /\ prev_layers'[i] = prev_layers[i]
                /\ last_paused_time'[i] = last_paused_time[i]]_vars

\* printer 1 was read while RUNNING at layer 2 and paused; then printer 0 was read and
\* printer 1 was skipped: what is remembered of printer 1 is what was read
C17_Witness ==
    /\ check_i = 0 /\ cycle.printer_index = 0 /\ Ran
    /\ fed[1] = "PAUSE"
    /\ prev_states[1] = [gcode_state |-> "PAUSE", print_state |-> "PRINTING"]
    /\ prev_layers[1] = 2
    /\ last_paused_time[1] > 0

(***************************************************************************)
(* Dispatch order (SpecDispatch).                                          *)
(***************************************************************************)
\* C18: the events a run of the poller yielded are handled one at a time, each once,
\* in the order they were yielded: the queue of events changes only by a run that
\* fills the empty queue with events of the printer read, or by the end of the handling
\* of its first event, whether handle_event returned or raised; a handling starts only
\* while none is under way, and no printer is read while an event waits or is handled.
C18_DispatchOrder ==
    [][/\ pending' # pending =>
             \/ /\ pending = <<>> /\ disp.pc = "idle" /\ disp' = disp
                /\ check_i' = NextPrinter(check_i)
                /\ \A k \in 1 .. Len(pending') : pending'[k].printer_index = check_i
             \/ /\ pending # <<>>
                /\ pending' = Tail(pending)
                /\ disp'.pc = "idle"
                /\ did'.op = "handled" /\ did'.event = <<Head(pending)>>
                /\ did'.result \in {"ok", "raised"}
       /\ check_i' # check_i => pending = <<>> /\ disp.pc = "idle"
       /\ disp'.pc # disp.pc =>
             /\ pending # <<>>
             /\ disp.pc = "idle" \/ disp'.pc = "idle" \/ pending' = pending
             /\ disp.pc = "idle" => pending' = pending /\ disp'.printer_index = Head(pending).printer_index
             /\ disp'.pc = "idle" => pending' = Tail(pending)]_vars

\* the send of the print-started announcement raised: the layer event yielded after
\* PRINT_STARTED still waits
C18_Witness ==
    /\ did.op = "handled" /\ did.result = "raised"
    /\ did.event[1].type = "PRINT_STARTED"
    /\ pending # <<>> /\ Head(pending).type = "LAYER_CHANGED"
    /\ Head(pending).printer_index = did.printer_index

(***************************************************************************)
(* The monitor loop and calls that raise (SpecFault).                      *)
(***************************************************************************)
\* C19: no exception of a gateway or device call made in a pass (the log send of
\* reconnect_if_needed, the status-message update, the stale-camera alert, a
\* livestream update, a readiness check, the reading of a printer, the handling of an
\* event) ends the monitor loop: after the step in which it is raised the loop is
\* still running.
C19_LoopSurvives ==
    [][(/\ disp.pc # "crashed"
        /\ did'.result \in {"raised", "caught", "readiness_raised", "check_raised"}) =>
            disp'.pc # "crashed"]_vars

\* the alert of check_stale_cameras raised: monitor_loop is over
C19_LoopEnded ==
    /\ did.op = "pass" /\ did.result = "raised" /\ did.input = <<"stale_alert">>
    /\ disp.pc = "crashed"

(***************************************************************************)
(* Loading at startup (SpecLoad).                                          *)
(***************************************************************************)
\* C20: a start of the program completes whatever file it finds, and when the file is
\* missing, cannot be parsed, or holds a record that cannot be turned into a
\* PrintSession or UserPreferences, the Storage starts empty: no active_prints and no
\* user_preferences, nothing of a partially loaded file being kept.
C20_BadFileGivesEmptyState ==
    (did.op = "startup" /\ did.result # "ok") =>
        active_prints = EmptyDict /\ user_preferences = EmptyDict

\* the file held two sessions and a bad preferences record: the sessions were kept
C20_PartialState ==
    /\ did.op = "startup" /\ did.result = "bad_record"
    /\ data_file.damage.kind = "user_preferences"
    /\ DOMAIN active_prints = Printers
    /\ user_preferences = EmptyDict

(***************************************************************************)
(* C21  Write-through persistence                                          *)
(***************************************************************************)
\* C21: between the operations of the store the data file holds what the memory
\* holds: once a mutator (start_print, claim_print, set_dm_preference,
\* set_layer2_notify, mark_layer2_notified, end_print, set_status_message_id) has
\* returned, the file is the dump of active_prints, user_preferences and
\* status_message_id, and as long as no file was written all three are empty.
C21_WriteThrough ==
    IF data_file.exists
    THEN /\ data_file.active_prints = DumpSessions(active_prints)
         /\ data_file.user_preferences = DumpAllPreferences(user_preferences)
         /\ data_file.status_message_id = JOptInt(status_message_id, NoMessage)
         /\ "damage" \notin DOMAIN data_file
    ELSE /\ active_prints = EmptyDict
         /\ user_preferences = EmptyDict
         /\ status_message_id = NoMessage

\* a claimed print with its layer-2 notification marked, a stored preference and a
\* stored status message id, all of them in the file
C21_Witness ==
    /\ data_file.exists
    /\ status_message_id # NoMessage
    /\ 7 \in DOMAIN user_preferences
    /\ 0 \in DOMAIN active_prints
    /\ active_prints[0].claimed_by = 7
    /\ active_prints[0].layer2_notified
    /\ did.op = "handled"

C24_IndependentNotifications ==
    [][/\ (disp.pc = "layer2_send" /\ disp' # disp) =>
             LET i == disp.printer_index
             IN  /\ CustomArmed(active_prints, i, Head(pending).layer) =>
                       /\ disp'.pc = "custom_send"
                       /\ ~active_prints'[i].notify_layer_notified
                 /\ i \in DOMAIN active_prints =>
                       active_prints'[i].notify_layer_notified
                           = active_prints[i].notify_layer_notified
       /\ (disp.pc = "custom_send" /\ disp' # disp) =>
             LET i == disp.printer_index
             IN  /\ i \in DOMAIN active_prints =>
                       active_prints'[i].layer2_notified = active_prints[i].layer2_notified
                 /\ (Len(did'.sent) = 2 /\ Snapshot(active_prints, i) = disp.seen) =>
                       /\ active_prints'[i].layer2_notified
                       /\ active_prints'[i].notify_layer_notified
      ]_vars

\* the layer-2 send of a layer-2 event raised while the target, layer 2, was armed:
\* the handling ended with the custom notification neither sent nor marked
C24_CustomNotAttempted ==
    /\ did.op = "handled" /\ did.result = "raised" /\ did.sent = <<>>
    /\ did.event[1].type = "LAYER_CHANGED" /\ did.event[1].layer = 2
    /\ Layer2Armed(active_prints, did.printer_index)
    /\ CustomArmed(active_prints, did.printer_index, 2)

(***************************************************************************)
(* C25  A notification step against the callbacks of the users             *)
(***************************************************************************)
\* C25: the check, the send and the mark of a notification act on the store as one
\* operation, whatever callbacks and commands run while the send is awaited: in the
\* step in which layer2_notified or notify_layer_notified of a session becomes true,
\* the session's claimer is the user the notification was sent to.
C25_AtomicNotification ==
    [][\A i \in DOMAIN active_prints \cap DOMAIN active_prints' :
          (\/ ~active_prints[i].layer2_notified /\ active_prints'[i].layer2_notified
           \/ ~active_prints[i].notify_layer_notified
                 /\ active_prints'[i].notify_layer_notified) =>
              /\ disp.message # <<>>
              /\ disp.message[1].chat = "dm"
              /\ active_prints'[i].claimed_by = disp.message[1].user
      ]_vars

\* the claimer unclaimed while the layer-2 send to them was awaited: the send
\* returned and the mark went to the session, which has no claimer
C25_MarkedAfterUnclaim ==
    /\ did.op = "handled" /\ did.result = "ok"
    /\ did.event[1].type = "LAYER_CHANGED"
    /\ Len(did.sent) = 1 /\ did.sent[1].kind = "layer2" /\ did.sent[1].user = 7
    /\ active_prints[did.printer_index].claimed_by = NoUser
    /\ active_prints[did.printer_index].layer2_notified

(***************************************************************************)
(* C26  PRINT_FAILED, PRINT_PAUSED and STATE_CHANGED leave the store alone *)
(***************************************************************************)
\* C26: the handling of a PRINT_FAILED, PRINT_PAUSED or STATE_CHANGED event, of the
\* gcode channel or of the print channel, whether its log send returns or raises,
\* leaves active_prints, user_preferences, status_message_id and the file as they
\* were; and a session leaves active_prints only in the handling of PRINT_FINISHED,
\* so the session of a failed print stays, with its claim and its flags.
C26_LoggedEventsKeepStore ==
    [][/\ (/\ disp.pc = "idle" /\ pending # <<>> /\ pending' # pending
           /\ Head(pending).type \in {"PRINT_FAILED", "PRINT_PAUSED", "STATE_CHANGED"}) =>
             /\ UNCHANGED storeVars
             /\ did'.op = "handled" /\ did'.event = <<Head(pending)>>
       /\ DOMAIN active_prints \ DOMAIN active_prints' # {} =>
             /\ did'.op = "handled" /\ did'.event[1].type = "PRINT_FINISHED"
             /\ DOMAIN active_prints \ DOMAIN active_prints' = {did'.printer_index}
      ]_vars

\* a claimed print with its layer-2 notification sent and a target armed has failed,
\* and PRINT_FAILED was handled: the session is as it was
C26_Witness ==
    /\ did.op = "handled" /\ did.event[1].type = "PRINT_FAILED"
    /\ did.printer_index \in DOMAIN active_prints
    /\ active_prints[did.printer_index].claimed_by = 7
    /\ active_prints[did.printer_index].layer2_notified
    /\ active_prints[did.printer_index].notify_layer = 2
    /\ 7 \in DOMAIN user_preferences

(***************************************************************************)
(* C27  Malformed /notify                                                  *)
(***************************************************************************)
\* the value of "/notify [printer] <layer|percent%>" is its last argument; it is
\* malformed when it is missing, is not a number, is a layer below 1, is a percentage
\* outside 1..100, or is a percentage while the printer is not ready or reports no
\* total layer count
MalformedValue(args, ready, total_layers) ==
    \/ args = <<>>
    \/ LET value == args[Len(args)]
           body == SubSeq(value, 1, Len(value) - 1)
       IN  IF value[Len(value)] = "%"
           THEN \/ ~IsInt(body)
                \/ IntValue(body) < 1 \/ IntValue(body) > 100
                \/ ~ready
                \/ total_layers <= 0
           ELSE ~IsInt(value) \/ IntValue(value) < 1

\* C27: a /notify whose value is malformed is answered with a reply and arms
\* nothing: notify_layer, notify_type, notify_original_value and
\* notify_layer_notified of every session stay as they were.
C27_MalformedNotifyMutatesNothing ==
    [][\A args \in CommandArgs, ready \in BOOLEAN, total_layers \in {0, MaxTotalLayers} :
          (MalformedValue(args, ready, total_layers)
             /\ HandleNotify(7, args, ready, total_layers)) =>
              /\ did'.op = "notify" /\ did'.result # "armed"
              /\ DOMAIN active_prints' = DOMAIN active_prints
              /\ \A i \in DOMAIN active_prints :
                    /\ active_prints'[i].notify_layer = active_prints[i].notify_layer
                    /\ active_prints'[i].notify_type = active_prints[i].notify_type
                    /\ active_prints'[i].notify_original_value
                          = active_prints[i].notify_original_value
                    /\ active_prints'[i].notify_layer_notified
                          = active_prints[i].notify_layer_notified
      ]_vars

(***************************************************************************)
(* C28  claimed_by and claimed_username                                    *)
(***************************************************************************)
\* C28: in every state of the store, every session that has a claimer has the
\* claimer's display name, and every session without a claimer, a session that was
\* unclaimed included, has no name: claimed_by and claimed_username are set together
\* and null together, in the memory and in the file.
C28_ClaimerHasName ==
    /\ \A i \in DOMAIN active_prints :
          IF active_prints[i].claimed_by = NoUser
          THEN active_prints[i].claimed_username = None
          ELSE /\ active_prints[i].claimed_by \in Users
               /\ active_prints[i].claimed_username = Username(active_prints[i].claimed_by)
    /\ \A i \in DOMAIN Load(data_file)[1] :
          (Load(data_file)[1][i].claimed_by = NoUser)
              = (Load(data_file)[1][i].claimed_username = None)

\* a user claimed a print and gave it up: the session is there with neither claimer
\* nor name, while the other user holds preferences from an earlier claim
C28_Witness ==
    /\ did.op \in {"unclaim", "unclaim_callback"} /\ did.result = "unclaimed"
    /\ did.user = 7
    /\ active_prints[did.printer_index].claimed_by = NoUser
    /\ active_prints[did.printer_index].claimed_username = None
    /\ 42 \in DOMAIN user_preferences

C30_FinishedStepOrder ==
    (did.op = "handled" /\ did.event[1].type = "PRINT_FINISHED") =>
        LET calls == did.calls
            At(call) == {k \in 1 .. Len(calls) : calls[k] = call}
            Before(a, b) == \A j \in At(a), k \in At(b) : j < k
        IN  /\ Before("turn_light_on", "wait_frame")
            /\ Before("clear_frame", "wait_frame")
            /\ Before("wait_frame", "send")
            /\ Before("send", "turn_light_off")
            /\ Before("turn_light_off", "end_print")
            /\ At("end_print") # {} => At("turn_light_off") # {}
            /\ At("turn_light_on") # {} => At("turn_light_off") # {}
            /\ did.printer_index \notin DOMAIN active_prints => At("turn_light_off") # {}

\* the announcement of a finished, claimed print was refused by the gateway: the light
\* was turned on and not off, and the session is still there
C30_LightLeftOn ==
    /\ did.op = "handled" /\ did.event[1].type = "PRINT_FINISHED"
    /\ did.result = "raised"
    /\ \E k \in 1 .. Len(did.calls) : did.calls[k] = "turn_light_on"
    /\ \A k \in 1 .. Len(did.calls) : did.calls[k] # "turn_light_off"
    /\ did.printer_index \in DOMAIN active_prints
    /\ active_prints[did.printer_index].claimed_by # NoUser

(***************************************************************************)
(* C31  Callback tokens                                                    *)
(***************************************************************************)
\* C31: a dm_pref callback whose index part is not an integer of the printer range,
\* or whose preference part is neither chat nor dm, changes no session and no user
\* preference; and after every step the dm_preference of every session and the
\* default_dm_preference of every user is chat or dm.
C31_CallbackFailsClosed ==
    [][/\ \A user \in Users, index \in IndexTokens, preference \in PreferenceTokens :
             (/\ HandleDmPreferenceCallback(user, index, preference)
              /\ \/ ~IsInt(index)
                 \/ IntValue(index) \notin Printers
                 \/ preference \notin {"chat", "dm"})
                => UNCHANGED storeVars
       /\ \A i \in DOMAIN active_prints' :
             active_prints'[i].dm_preference \in {"chat", "dm"}
       /\ \A user \in DOMAIN user_preferences' :
             user_preferences'[user].default_dm_preference \in {"chat", "dm"}]_vars

\* a dm_pref callback with another word than chat or dm has put that word into a
\* session and into the defaults of its claimer
C31_WordStored ==
    /\ did.op = "dm_preference"
    /\ \E i \in DOMAIN active_prints :
          /\ active_prints[i].dm_preference = "both"
          /\ active_prints[i].claimed_by \in DOMAIN user_preferences
          /\ user_preferences[active_prints[i].claimed_by].default_dm_preference = "both"

(***************************************************************************)
(* C32  Order of the events of one cycle                                   *)
(***************************************************************************)
\* C32: the events of one cycle of a printer come in the order STATE_CHANGED of the
\* gcode state, then at most one of PRINT_FINISHED, PRINT_FAILED, PRINT_PAUSED and
\* PRINT_STARTED, then LAYER_CHANGED, then STATE_CHANGED of the print status, each
\* at most once and the second only after the first; in a cycle with PRINT_STARTED
\* a LAYER_CHANGED has prev_layer 0 and is there exactly when the layer read (the
\* layer remembered after the cycle) is not 0.
C32_CycleEventOrder ==
    LET events == cycle.events
        Rank(e) == IF e.type = "STATE_CHANGED" THEN (IF e.channel = "gcode" THEN 1 ELSE 4)
                   ELSE IF e.type = "LAYER_CHANGED" THEN 3
                   ELSE 2
        started == CountType("PRINT_STARTED", events) > 0
        read == prev_layers[cycle.printer_index]
    IN  /\ \A j, k \in 1 .. Len(events) : j < k => Rank(events[j]) < Rank(events[k])
        /\ \A k \in 1 .. Len(events) :
              Rank(events[k]) = 2 => (k = 2 /\ Rank(events[1]) = 1)
        /\ started =>
              /\ CountType("LAYER_CHANGED", events) = (IF read # 0 THEN 1 ELSE 0)
              /\ \A k \in 1 .. Len(events) :
                    events[k].type = "LAYER_CHANGED" =>
                        events[k].prev_layer = 0 /\ events[k].layer = read

\* a print starts at layer 2 with a change of the print status: all four kinds of
\* events in one cycle
C32_Witness ==
    /\ Len(cycle.events) = 4
    /\ cycle.events[1] = StateChanged(cycle.printer_index, "FINISH", "RUNNING")
    /\ cycle.events[2].type = "PRINT_STARTED"
    /\ cycle.events[3] = LayerChanged(cycle.printer_index, 0, 2)
    /\ cycle.events[4] = PrintStateChanged(cycle.printer_index, "IDLE", "PRINTING")
    /\ prev_layers[cycle.printer_index] = 2

(***************************************************************************)
(* C33  LAYER_CHANGED and the remembered layer                             *)
(***************************************************************************)
\* C33: a cycle yields at most one LAYER_CHANGED, only when its new gcode state is
\* RUNNING; the event's prev_layer is the layer remembered before the cycle (0 when
\* the cycle yields PRINT_STARTED), its layer differs from that and is the layer
\* remembered after the cycle; a RUNNING cycle without the event leaves the
\* remembered layer (or the 0 of a start); the remembered layer changes in no other
\* step, in particular in no cycle whose new gcode state is not RUNNING, so the
\* LAYER_CHANGED events of a printer chain.
C33_LayerChain ==
    [][LET i == cycle'.printer_index
           events == cycle'.events
           layers == {k \in 1 .. Len(events) : events[k].type = "LAYER_CHANGED"}
           started == CountType("PRINT_STARTED", events) > 0
           base == IF started THEN 0 ELSE prev_layers[i]
       IN  /\ cycle' # cycle =>
                /\ Cardinality(layers) <= 1
                /\ layers # {} => cycle'.new = "RUNNING"
                /\ \A k \in layers :
                      /\ events[k].prev_layer = base
                      /\ events[k].layer # base
                      /\ prev_layers'[i] = events[k].layer
                /\ layers = {} => prev_layers'[i] = base
                /\ cycle'.new # "RUNNING" => prev_layers'[i] = prev_layers[i]
           /\ \A j \in Printers :
                prev_layers'[j] # prev_layers[j] =>
                    /\ cycle' # cycle /\ j = i /\ cycle'.new = "RUNNING"
                    /\ layers # {} \/ started]_vars

\* a running print went from layer 1 to layer 2
C33_Witness ==
    /\ cycle.prev = "RUNNING" /\ cycle.new = "RUNNING"
    /\ cycle.events = <<LayerChanged(cycle.printer_index, 1, 2)>>
    /\ prev_layers[cycle.printer_index] = 2

(***************************************************************************)
(* C34  PRINT_STARTED on a printer that has a session                      *)
(***************************************************************************)
\* C34: the handling of a PRINT_STARTED for a printer that has a session asks for
\* the deletion of that session's announcement and leaves under the printer's index
\* a new session of the new announcement, with no claimer, the default preferences
\* and nothing armed or notified; and every session stands under its own
\* printer_index, so a printer never has two.
C34_StartReplacesSession ==
    [][/\ \A delivered \in BOOLEAN, m \in MessageIds, t \in PrintTimes :
             (/\ HandlePrintStarted(delivered, m, t)
              /\ Head(pending).printer_index \in DOMAIN active_prints) =>
                 LET i == Head(pending).printer_index
                 IN  /\ did'.seen = <<active_prints[i]>>
                     /\ i \in DOMAIN active_prints'
                     /\ active_prints'[i] =
                            PrintSession(m, MainChat, i) @@ NotifyFields(FormatPrintTime(t))
       /\ \A i \in DOMAIN active_prints' : active_prints'[i].printer_index = i]_vars

\* the announcement of a new print was refused by the gateway: the session of the
\* print before it, with its claimer, is the printer's session still
C34_OldClaimKept ==
    /\ did.op = "handled" /\ did.event[1].type = "PRINT_STARTED"
    /\ did.result = "raised"
    /\ did.seen # <<>>
    /\ did.printer_index \in DOMAIN active_prints
    /\ active_prints[did.printer_index] = did.seen[1]
    /\ active_prints[did.printer_index].claimed_by # NoUser

(***************************************************************************)
(* C35  A resume is not a start                                            *)
(***************************************************************************)
\* C35: a cycle that reads RUNNING after PAUSE or after FAILED yields STATE_CHANGED
\* first and no PRINT_STARTED (and no PRINT_FINISHED, PRINT_FAILED or PRINT_PAUSED),
\* compares the layer read with the layer remembered, not with 0, and leaves the
\* store as it is; and the handling of an event other than PRINT_STARTED and
\* PRINT_FINISHED removes no session, changes no claimer, claimer's name or
\* preference, and takes no notified flag back: the session of a print lives
\* through its pauses and resumes.
C35_ResumeKeepsSession ==
    [][/\ \A r \in SessionReadings :
             (/\ MonitorCheck(r)
              /\ prev_states[check_i].gcode_state \in {"PAUSE", "FAILED"}
              /\ r.gcode_state = "RUNNING") =>
                 /\ pending' # <<>>
                 /\ pending'[1] = StateChanged(check_i, prev_states[check_i].gcode_state,
                                               "RUNNING")
                 /\ \A k \in 1 .. Len(pending') :
                       /\ pending'[k].type \in {"STATE_CHANGED", "LAYER_CHANGED"}
                       /\ pending'[k].type = "LAYER_CHANGED" =>
                             pending'[k].prev_layer = prev_layers[check_i]
                 /\ CountType("LAYER_CHANGED", pending') =
                        (IF r.layer # prev_layers[check_i] THEN 1 ELSE 0)
                 /\ prev_layers'[check_i] = r.layer
                 /\ UNCHANGED storeVars
       /\ (/\ pending # <<>>
           /\ Head(pending).type \notin {"PRINT_STARTED", "PRINT_FINISHED"}
           /\ disp' # disp \/ pending' # pending) =>
              /\ DOMAIN active_prints' = DOMAIN active_prints
              /\ UNCHANGED user_preferences
              /\ \A i \in DOMAIN active_prints :
                    /\ active_prints'[i].claimed_by = active_prints[i].claimed_by
                    /\ active_prints'[i].claimed_username = active_prints[i].claimed_username
                    /\ active_prints'[i].dm_preference = active_prints[i].dm_preference
                    /\ active_prints'[i].layer2_notify = active_prints[i].layer2_notify
                    /\ active_prints'[i].message_id = active_prints[i].message_id
                    /\ active_prints[i].layer2_notified => active_prints'[i].layer2_notified
                    /\ active_prints[i].notify_layer_notified =>
                           active_prints'[i].notify_layer_notified]_vars

\* a claimed print that was notified of layer 2 was paused and has resumed at the
\* layer it was paused at: the cycle yielded the state change alone
C35_Witness ==
    /\ pending = <<StateChanged(0, "PAUSE", "RUNNING")>>
    /\ prev_layers[0] = 2
    /\ 0 \in DOMAIN active_prints
    /\ active_prints[0].claimed_by = 7
    /\ active_prints[0].layer2_notified

(***************************************************************************)
(* C36  Sessions of printers seen idle or finished                         *)
(***************************************************************************)
\* C36: whenever the last gcode state read from a printer is FINISH or IDLE and the
\* events of that cycle have been handled, the printer has no session.
C36_NoStaleSession ==
    \A i \in Printers :
        (~Dispatching /\ prev_states[i].gcode_state \in {"FINISH", "IDLE"}) =>
            i \notin DOMAIN active_prints

\* the program was started again during a print and read FINISH as its first state
\* of the printer: the session loaded from the file is still there
C36_StaleAfterRestart ==
    /\ ~Dispatching
    /\ prev_states[0].gcode_state = "FINISH"
    /\ 0 \in DOMAIN active_prints
    /\ active_prints[0].claimed_by = 7

(***************************************************************************)
(* C37  The layer-2 notification and the layer observed                    *)
(***************************************************************************)
\* a session that has not been notified of layer 2 while the poller remembers a
\* layer from 2 on, with no LAYER_CHANGED to layer 2 of the printer waiting or being
\* handled
Layer2Missed(i) ==
    /\ i \in DOMAIN active_prints
    /\ ~active_prints[i].layer2_notified
    /\ prev_layers[i] >= 2
    /\ disp.pc # "layer2_send"
    /\ \A k \in 1 .. Len(pending) :
          ~(pending[k].type = "LAYER_CHANGED" /\ pending[k].printer_index = i
            /\ pending[k].layer = 2)

C38_ProgressToClaimer ==
    [][/\ (disp'.pc \in {"layer2_send", "custom_send"} /\ disp' # disp) =>
             LET i == disp'.printer_index
             IN  /\ i \in DOMAIN active_prints'
                 /\ active_prints'[i].claimed_by # NoUser
                 /\ disp'.message[1].chat = "dm"
                 /\ disp'.message[1].user = active_prints'[i].claimed_by
       /\ \A i \in DOMAIN active_prints \cap DOMAIN active_prints' :
             (\/ ~active_prints[i].layer2_notified /\ active_prints'[i].layer2_notified
              \/ ~active_prints[i].notify_layer_notified
                    /\ active_prints'[i].notify_layer_notified) =>
                 active_prints'[i].claimed_by # NoUser]_vars

\* the claimer unclaimed while the DM of the custom target was awaited: the send
\* returned and notify_layer_notified was set on the session, which has no claimer
\* and no target
C38_UnclaimedMarked ==
    /\ did.op = "handled" /\ did.result = "ok"
    /\ did.event[1].type = "LAYER_CHANGED"
    /\ did.sent # <<>> /\ did.sent[Len(did.sent)].kind = "custom"
    /\ active_prints[did.printer_index].claimed_by = NoUser
    /\ active_prints[did.printer_index].notify_layer = NoLayer
    /\ active_prints[did.printer_index].notify_layer_notified

(***************************************************************************)
(* C39  Callbacks and commands of a user who is not the claimer            *)
(***************************************************************************)
\* C39: an unclaim callback, an /unclaim command, a dm-preference callback or a
\* layer-2-toggle callback of a user leaves every session claimed by another user
\* as it is, and, when it is aimed at such a session, leaves the preferences of
\* every user as they are.
C39_OnlyClaimerChanges ==
    [][did'.op \in {"unclaim_callback", "unclaim", "dm_preference", "layer2_toggle"} =>
          LET Others(i) == /\ i \in DOMAIN active_prints
                           /\ active_prints[i].claimed_by \notin {NoUser, did'.user}
          IN  /\ \A i \in Printers :
                    Others(i) => i \in DOMAIN active_prints'
                                   /\ active_prints'[i] = active_prints[i]
              /\ Others(did'.printer_index) => UNCHANGED user_preferences]_vars

\* user 42 pressed "Send to DM only" under the print that user 7 holds: the session
\* of 7 and the default of 7 say "dm"
C39_ChangedByOther ==
    /\ did.op = "dm_preference" /\ did.user = 42
    /\ did.printer_index \in DOMAIN active_prints
    /\ active_prints[did.printer_index].claimed_by = 7
    /\ active_prints[did.printer_index].dm_preference = "dm"
    /\ 7 \in DOMAIN user_preferences /\ user_preferences[7].default_dm_preference = "dm"
    /\ 42 \notin DOMAIN user_preferences

(***************************************************************************)
(* C40  What /notify arms                                                  *)
(***************************************************************************)
\* C40: a /notify of a user changes only a session that user has claimed; when it
\* arms, the threshold is that of its last argument, the layer itself or the layer
\* of the percentage; and when its first of two arguments is not the number of a
\* printer the user has claimed, it arms nothing.
C40_NotifyArmsWhatWasAsked ==
    [][\A args \in CommandArgs, ready \in BOOLEAN, total_layers \in {0, MaxTotalLayers} :
          HandleNotify(7, args, ready, total_layers) =>
              LET claimed == ClaimedPrinters(active_prints, 7)
                  value == args[Len(args)]
                  body == SubSeq(value, 1, Len(value) - 1)
                  i == did'.printer_index
              IN  /\ DOMAIN active_prints' = DOMAIN active_prints
                  /\ \A j \in DOMAIN active_prints :
                        active_prints'[j] # active_prints[j] => j \in claimed
                  /\ did'.result = "armed" =>
                        /\ i \in claimed
                        /\ IF value[Len(value)] = "%"
                           THEN /\ IsInt(body)
                                /\ active_prints'[i].notify_layer =
                                       PercentToLayer(IntValue(body), total_layers)
                           ELSE /\ IsInt(value)
                                /\ active_prints'[i].notify_layer = IntValue(value)
                  /\ (Len(args) = 2 /\ (IntValue(args[1]) - 1) \notin claimed) =>
                        /\ did'.result # "armed"
                        /\ UNCHANGED active_prints]_vars

====
